---- MODULE Spec2Model ----
(***************************************************************************)
(* Model of the tse command line tool (anoldguy/tailscale-exits): the      *)
(* control-plane reconciliation engine (discovery, Setup, Teardown), the   *)
(* spinner wrappers its steps run under, and the provider (AWS) it talks   *)
(* to.  One behaviour is one invocation of `tse deploy` or `tse teardown`. *)
(***************************************************************************)
EXTENDS Integers, Sequences, FiniteSets, Bags, TLC

(* ------------------------------ bounds --------------------------------- *)
\* Ctrl+C key presses delivered to the terminal during one invocation.
MaxKeys == 1
\* Lookups of one invocation that the provider answers with an unexpected error.
MaxDenied == 1
\* Ticks of the retry loop's ticker before the 2 minute timer fires.
MaxTicks == 2
\* Start and stop requests the deployed function is sent.
MaxStarts == 2
MaxStops == 1
\* Forced cleanup requests the deployed function is sent.
MaxForce == 1
\* The symbols of an Authorization header's value.
MaxHeader == 3
\* Applications of ConfigureForExitNodes to one policy.
MaxApply == 2
\* The owners of a tag and the approvers of exit nodes a policy lists.
MaxList == 2

(* --------------------------- program constants ------------------------- *)
FunctionName == "tailscale-exits"
RoleName == "tailscale-exits-lambda-role"
InlinePolicyName == "tailscale-exits-lambda-ec2-policy"
LogGroupName == "/aws/lambda/tailscale-exits"
TagManagedBy == "tse"
OldToken == "oldtoken"
ConfirmToken == <<"D", "E", "L", "E", "T", "E">>
FunctionURLValue == "https://fn.lambda-url.on.aws/"
RoleARNValue == "arn:aws:iam::role/tailscale-exits-lambda-role"

\* A nil *Resource / nil *InfrastructureState.
NIL == [nil |-> TRUE]

(* ------------------------- InfrastructureState ------------------------- *)
\* A *Resource; of its tags, managedBy is Tags["ManagedBy"] ("" when the map
\* has no such key).
Resource(name, managedBy) == [Name |-> name, Tags |-> [ManagedBy |-> managedBy]]

EmptyState ==
    [LogGroup |-> NIL, IAMRole |-> NIL, Lambda |-> NIL, FunctionURL |-> "",
     Policies |-> [Managed |-> FALSE, InlineName |-> ""]]

Exists(s) == s.LogGroup # NIL \/ s.IAMRole # NIL \/ s.Lambda # NIL

\* A variant of IsComplete that looks at the endpoint and the policies only.
IsComplete_FlagsOnly(s) ==
    /\ s.FunctionURL # ""
    /\ s.Policies.Managed
    /\ s.Policies.InlineName # ""

IsComplete(s) ==
    /\ s.LogGroup # NIL
    /\ s.IAMRole # NIL
    /\ s.Lambda # NIL
    /\ s.FunctionURL # ""
    /\ s.Policies.Managed
    /\ s.Policies.InlineName # ""

\* A variant of Missing that reports the function before the policies and has
\* no label for the endpoint.
Missing_FunctionFirst(s) ==
    (IF s.LogGroup = NIL THEN <<"CloudWatch Log Group">> ELSE <<>>)
    \o (IF s.IAMRole = NIL THEN <<"IAM Role">> ELSE <<>>)
    \o (IF s.Lambda = NIL THEN <<"Lambda Function">> ELSE <<>>)
    \o (IF ~s.Policies.Managed THEN <<"Managed Policy Attachment">> ELSE <<>>)
    \o (IF s.Policies.InlineName = "" THEN <<"Inline Policy">> ELSE <<>>)

Missing(s) ==
    (IF s.LogGroup = NIL THEN <<"CloudWatch Log Group">> ELSE <<>>)
    \o (IF s.IAMRole = NIL THEN <<"IAM Role">> ELSE <<>>)
    \o (IF ~s.Policies.Managed THEN <<"Managed Policy Attachment">> ELSE <<>>)
    \o (IF s.Policies.InlineName = "" THEN <<"Inline Policy">> ELSE <<>>)
    \o (IF s.Lambda = NIL THEN <<"Lambda Function">> ELSE <<>>)
    \o (IF s.FunctionURL = "" THEN <<"Function URL">> ELSE <<>>)

\* A variant of HasOnlyIAMResources that does not count the endpoint as regional.
HasOnlyIAMResources_IgnoresURL(s) ==
    LET hasIAM == s.IAMRole # NIL \/ s.Policies.Managed \/ s.Policies.InlineName # ""
        hasRegional == s.LogGroup # NIL \/ s.Lambda # NIL
    IN  hasIAM /\ ~hasRegional

HasOnlyIAMResources(s) ==
    LET hasIAM == s.IAMRole # NIL \/ s.Policies.Managed \/ s.Policies.InlineName # ""
        hasRegional == s.LogGroup # NIL \/ s.Lambda # NIL \/ s.FunctionURL # ""
    IN  hasIAM /\ ~hasRegional

(* ------------------------------ strings -------------------------------- *)
\* strings.TrimSpace over a line given as a sequence of characters.
WhiteSpace == {" ", "\t", "\n", "\r"}

RECURSIVE TrimLeft(_)
TrimLeft(s) ==
    IF s # <<>> /\ Head(s) \in WhiteSpace THEN TrimLeft(Tail(s)) ELSE s

RECURSIVE TrimRight(_)
TrimRight(s) ==
    IF s # <<>> /\ s[Len(s)] \in WhiteSpace
    THEN TrimRight(SubSeq(s, 1, Len(s) - 1))
    ELSE s

TrimSpace(s) == TrimRight(TrimLeft(s))

\* bufio.Reader.ReadString('\n') on the whole of stdin: the text up to and
\* including the first newline, or an error (io.EOF) when there is none.
HasNewline(s) == \E i \in 1..Len(s) : s[i] = "\n"

ReadString(s) ==
    LET i == CHOOSE k \in 1..Len(s) : s[k] = "\n" /\ \A j \in 1..(k - 1) : s[j] # "\n"
    IN  SubSeq(s, 1, i)

(* ------------------------------- state --------------------------------- *)
VARIABLES
    cmd,          \* the command of this invocation: "deploy" or "teardown"
    impl,         \* Teardown as built: "plain" (teardown.go) or "spinner" (ui.WithSpinner)
    stdin,        \* what the user types at the confirmation prompt
    env,          \* os.Getenv: TAILSCALE_AUTH_KEY, TSE_AUTH_TOKEN
    cloud,        \* the provider's resources (the only durable state)
    pc,           \* the step the main goroutine is at
    waiting,      \* the main goroutine is inside tea.Program.Run for step pc
    state,        \* Setup/Teardown: var state *InfrastructureState
    finalState,   \* Setup: var finalState *InfrastructureState
    roleARN,      \* Setup: var roleARN string
    roleArg,      \* createLambdaFunctionWithRetry: its roleARN argument
    tseAuthToken, \* Setup: tseAuthToken
    wasGenerated, \* Setup: wasGenerated
    isLegacy,     \* Teardown: isLegacy
    finalErr,     \* createLambdaFunctionWithRetry: finalErr != nil
    result,       \* what the command returned
    task,         \* per step: where the goroutine started for it stands
    dsnap,        \* AutodiscoverInfrastructure: the state under construction
    lookupErrs,   \* lookups of the discovery in progress that answered an unexpected error
    calls,        \* history: the bag of mutating provider calls issued, each with its answer
    keys,         \* Ctrl+C presses delivered so far
    denied,       \* lookups answered with an unexpected error so far
    ticks,        \* ticks of the retry loop's ticker taken so far
    other,        \* a second invocation running at the same time: its variables
    request,      \* the request the function's handler was invoked with
    acl,          \* the ACL policy ConfigureForExitNodes is applied to, and what it returned
    ctxDone,      \* Setup's ctx is cancelled or past its deadline
    ec2,          \* the region's instances and network stack (the exit-node service)
    svc,          \* per request or goroutine of the service: the step it is at
    slocal,       \* the local variables of the service's requests and goroutines
    reply,        \* the status code the last start and stop request were answered with
    requests      \* start and stop requests received so far

cfgVars == <<cmd, impl, stdin, env, other, request, acl, ctxDone>>
mainVars == <<pc, waiting, tseAuthToken, wasGenerated, isLegacy, result, roleArg>>
timerVars == <<ticks>>
envVars == <<keys, denied>>
svcVars == <<ec2, svc, slocal, reply, requests>>
cliVars == <<cmd, impl, stdin, env, cloud, pc, waiting, state, finalState, roleARN, roleArg,
             tseAuthToken, wasGenerated, isLegacy, finalErr, result, task, dsnap,
             lookupErrs, calls, keys, denied, ticks, other, request, acl, ctxDone>>
vars == <<cmd, impl, stdin, env, cloud, pc, waiting, state, finalState, roleARN, roleArg,
          tseAuthToken, wasGenerated, isLegacy, finalErr, result, task, dsnap, lookupErrs,
          calls, keys, denied, ticks, other, request, acl, ctxDone, ec2, svc, slocal,
          reply, requests>>

\* The instances the region can hold: one that is there at the start and one
\* per start request.
InstanceIds == 1..(MaxStarts + 1)

\* The region without instances and without a network stack.
EmptyRegion ==
    [inst |-> [i \in InstanceIds |-> "none"], addr |-> [i \in InstanceIds |-> FALSE],
     vpc |-> FALSE, subnet |-> FALSE, igw |-> "none", sg |-> FALSE]

\* The requests and goroutines of the service, and their local variables.
Procs == {"start", "stop", "cleanup", "force"}

NoLocals ==
    [subnetID |-> FALSE, instanceIDs |-> {}, forceIDs |-> {}, cleanedResources |-> {},
     existingInstances |-> {}, listed |-> FALSE]

\* The command line tool runs: the service is not part of the run.
NoService ==
    /\ ec2 = EmptyRegion
    /\ svc = [p \in Procs |-> "idle"]
    /\ slocal = NoLocals
    /\ reply = [start |-> 0, stop |-> 0, force |-> 0]
    /\ requests = [start |-> 0, stop |-> 0, force |-> 0]

SetupSteps == <<"discover", "logGroup", "role", "managed", "inline", "build",
                "function", "retry", "url", "verify">>
TeardownSteps == <<"confirm", "discover", "delURL", "delFn", "delInline",
                   "detach", "delRole", "delLog">>
Ops == {"discover", "logGroup", "role", "managed", "inline", "build", "function",
        "retry", "url", "verify", "delURL", "delFn", "delInline", "detach",
        "delRole", "delLog"}

Finished == {"ok", "err", "prop", "timeout"}

(* ------------------------------ provider ------------------------------- *)
\* The provider's resources. A policy needs its role, an endpoint configuration
\* and an invoke permission need their function, a retention policy its log group.
\* At the start every resource is there as its create operation leaves it (a
\* log group with its retention policy, an endpoint with its permission).
\* logTag, roleTag and fnTag are the ManagedBy tags of the three tagged
\* resources: "" for a resource without the tag (and for one that is not there).
\* fnToken is the TSE_AUTH_TOKEN in the function's environment: OldToken for a
\* function deployed before this run.
CloudStates ==
    { c \in [logGroup : BOOLEAN, retention : BOOLEAN, role : BOOLEAN,
             managed : BOOLEAN, inline : BOOLEAN, fn : BOOLEAN, url : BOOLEAN,
             perm : BOOLEAN, logTag : {"", TagManagedBy}, roleTag : {"", TagManagedBy},
             fnTag : {"", TagManagedBy}, fnToken : {"", OldToken}] :
        /\ c.retention = c.logGroup
        /\ (c.managed \/ c.inline) => c.role
        /\ c.url => c.fn
        /\ c.perm = c.url
        /\ ~c.logGroup => c.logTag = ""
        /\ ~c.role => c.roleTag = ""
        /\ ~c.fn => c.fnTag = ""
        /\ c.fnToken = IF c.fn THEN OldToken ELSE "" }

\* The provider states in which every resource that is there carries the tag,
\* as the create functions leave them.
TaggedCloudStates ==
    { c \in CloudStates :
        /\ c.logGroup => c.logTag = TagManagedBy
        /\ c.role => c.roleTag = TagManagedBy
        /\ c.fn => c.fnTag = TagManagedBy }

\* Lines the user may type at the confirmation prompt (the last one ends without
\* a newline: end of input).
Inputs ==
    { <<"D", "E", "L", "E", "T", "E", "\n">>,
      <<" ", "D", "E", "L", "E", "T", "E", " ", "\r", "\n">>,
      <<"d", "e", "l", "e", "t", "e", "\n">>,
      <<"y", "e", "s", "\n">>,
      <<"\n">>,
      <<"D", "E", "L", "E", "T", "E">> }

Start(commands) ==
    /\ cmd \in commands
    /\ impl \in (IF cmd = "deploy" THEN {"spinner"} ELSE {"plain", "spinner"})
    /\ stdin \in (IF cmd = "deploy" THEN {<<>>} ELSE Inputs)
    /\ env \in (IF cmd = "deploy"
                THEN [TAILSCALE_AUTH_KEY : {"", "tskey-auth"}, TSE_AUTH_TOKEN : {"", "envtoken"}]
                ELSE {[TAILSCALE_AUTH_KEY |-> "", TSE_AUTH_TOKEN |-> ""]})
    /\ cloud \in (IF cmd = "deploy" THEN TaggedCloudStates ELSE CloudStates)
    /\ pc = (IF cmd = "deploy" THEN "discover" ELSE "confirm")
    /\ waiting = FALSE
    /\ state = NIL
    /\ finalState = NIL
    /\ roleARN = ""
    /\ roleArg = ""
    /\ tseAuthToken = ""
    /\ wasGenerated = FALSE
    /\ isLegacy = FALSE
    /\ finalErr = FALSE
    /\ result = [kind |-> "running"]
    /\ task = [o \in Ops |-> "none"]
    /\ dsnap = EmptyState
    /\ lookupErrs = {}
    /\ calls = EmptyBag
    /\ keys = 0
    /\ denied = 0
    /\ ticks = 0
    /\ request = NIL
    /\ acl = NIL
    /\ ctxDone = FALSE
    /\ NoService

\* The process is alive until the command returns (or panics); its goroutines
\* die with it.
Alive == pc # "done"

\* A mutating call reaches the provider, which answers ans ("ok", "err", "prop").
Issue(op, ans) == calls' = calls (+) SetToBag({[op |-> op, ans |-> ans]})

(* ------------------------------ discovery ------------------------------ *)
\* What a lookup may answer: "ok" only for a resource that is there,
\* "notfound" only for one that is not, "denied" (any unexpected provider
\* error: access denied, throttling, a malformed response) always. With a
\* context that is done the client answers every call with the context's error.
Answers(exists) ==
    IF ctxDone THEN {"denied"}
    ELSE IF exists THEN {"ok", "denied"} ELSE {"notfound", "denied"}

\* A variant of discoverIAMResources that records the managed policy whatever
\* GetRole answered.
discoverIAMResources_PoliciesWithoutRole(c, s, r) ==
    LET s0 == [s EXCEPT !.Policies.Managed = c.managed] IN
    IF r.GetRole # "ok"
    THEN [err |-> FALSE, state |-> s0, asked |-> {"GetRole"}]
    ELSE IF r.ListRoleTags # "ok"
    THEN [err |-> TRUE, state |-> s0, asked |-> {"GetRole", "ListRoleTags"}]
    ELSE [err |-> FALSE, state |-> [s0 EXCEPT !.IAMRole = Resource(RoleName, c.roleTag)],
          asked |-> {"GetRole", "ListRoleTags"}]

\* discoverIAMResources: r holds the provider's answers, c the resources.
\* Returns the error flag, the state as populated and the lookups issued.
discoverIAMResources(c, s, r) ==
    IF r.GetRole # "ok"
    THEN [err |-> FALSE, state |-> s, asked |-> {"GetRole"}]
    ELSE IF r.ListRoleTags # "ok"
    THEN [err |-> TRUE, state |-> s, asked |-> {"GetRole", "ListRoleTags"}]
    ELSE LET s1 == [s EXCEPT !.IAMRole = Resource(RoleName, c.roleTag)] IN
         IF r.ListAttachedRolePolicies # "ok"
         THEN [err |-> TRUE, state |-> s1,
               asked |-> {"GetRole", "ListRoleTags", "ListAttachedRolePolicies"}]
         ELSE LET s2 == [s1 EXCEPT !.Policies.Managed = c.managed]
                  s3 == IF r.GetRolePolicy = "ok"
                        THEN [s2 EXCEPT !.Policies.InlineName = InlinePolicyName]
                        ELSE s2
              IN  [err |-> FALSE, state |-> s3,
                   asked |-> {"GetRole", "ListRoleTags", "ListAttachedRolePolicies",
                              "GetRolePolicy"}]

discoverLambdaResources(c, s, r) ==
    IF r.GetFunction # "ok"
    THEN [err |-> FALSE, state |-> s, asked |-> {"GetFunction"}]
    ELSE IF r.ListTags # "ok"
    THEN [err |-> TRUE, state |-> s, asked |-> {"GetFunction", "ListTags"}]
    ELSE LET s1 == [s EXCEPT !.Lambda = Resource(FunctionName, c.fnTag)]
             s2 == IF r.GetFunctionUrlConfig = "ok"
                   THEN [s1 EXCEPT !.FunctionURL = FunctionURLValue]
                   ELSE s1
         IN  [err |-> FALSE, state |-> s2,
              asked |-> {"GetFunction", "ListTags", "GetFunctionUrlConfig"}]

\* DescribeLogGroups lists by prefix: it answers "ok" with an empty list when
\* the log group is not there. An error of ListTagsForResource leaves the
\* tags empty.
discoverLogsResources(c, s, r) ==
    IF r.DescribeLogGroups # "ok"
    THEN [err |-> TRUE, state |-> s, asked |-> {"DescribeLogGroups"}]
    ELSE IF ~c.logGroup
    THEN [err |-> FALSE, state |-> s, asked |-> {"DescribeLogGroups"}]
    ELSE LET tags == IF r.ListTagsForResource = "ok" THEN c.logTag ELSE ""
         IN  [err |-> FALSE,
              state |-> [s EXCEPT !.LogGroup = Resource(LogGroupName, tags)],
              asked |-> {"DescribeLogGroups", "ListTagsForResource"}]

Denied(out, r) == {k \in out.asked : r[k] = "denied"}

\* The unexpected errors the provider answers stay within the budget (the
\* errors of a context that is done are not the provider's).
Faults(out, r) ==
    IF ctxDone THEN denied' = denied
    ELSE /\ denied + Cardinality(Denied(out, r)) <= MaxDenied
         /\ denied' = denied + Cardinality(Denied(out, r))

IsDiscovery(d) == d \in {"discover", "verify"}

\* The goroutine's closure assigns the result: state (or finalState), err = ...
Assign(d, s) ==
    /\ state' = IF d = "discover" THEN s ELSE state
    /\ finalState' = IF d = "verify" THEN s ELSE finalState

\* A variant of DiscoverIAM that goes on from the snapshot of the earlier call
\* instead of an empty InfrastructureState.
DiscoverIAM_Cached(d) ==
    /\ IsDiscovery(d) /\ Alive /\ task[d] = "ready"
    /\ \E clientsOK \in BOOLEAN,
          r \in [GetRole : Answers(cloud.role), ListRoleTags : Answers(cloud.role),
                 ListAttachedRolePolicies : Answers(cloud.role),
                 GetRolePolicy : Answers(cloud.inline)] :
         LET out == discoverIAMResources(cloud, dsnap, r) IN
         IF ~clientsOK
         THEN /\ task' = [task EXCEPT ![d] = "err"]
              /\ Assign(d, NIL)
              /\ UNCHANGED <<dsnap, lookupErrs, denied>>
         ELSE /\ Faults(out, r)
              /\ lookupErrs' = Denied(out, r)
              /\ dsnap' = out.state
              /\ task' = [task EXCEPT ![d] = IF out.err THEN "err" ELSE "d1"]
              /\ IF out.err THEN Assign(d, NIL) ELSE UNCHANGED <<state, finalState>>
    /\ UNCHANGED <<svcVars, cfgVars, mainVars, cloud, roleARN, finalErr, calls, keys, timerVars>>

\* AutodiscoverInfrastructure, first part: NewAWSClients, discoverIAMResources.
DiscoverIAM(d) ==
    /\ IsDiscovery(d) /\ Alive /\ task[d] = "ready"
    /\ \E clientsOK \in BOOLEAN,
          r \in [GetRole : Answers(cloud.role), ListRoleTags : Answers(cloud.role),
                 ListAttachedRolePolicies : Answers(cloud.role),
                 GetRolePolicy : Answers(cloud.inline)] :
         LET out == discoverIAMResources(cloud, EmptyState, r) IN
         IF ~clientsOK
         THEN /\ task' = [task EXCEPT ![d] = "err"]
              /\ Assign(d, NIL)
              /\ UNCHANGED <<dsnap, lookupErrs, denied>>
         ELSE /\ Faults(out, r)
              /\ lookupErrs' = Denied(out, r)
              /\ dsnap' = out.state
              /\ task' = [task EXCEPT ![d] = IF out.err THEN "err" ELSE "d1"]
              /\ IF out.err THEN Assign(d, NIL) ELSE UNCHANGED <<state, finalState>>
    /\ UNCHANGED <<svcVars, cfgVars, mainVars, cloud, roleARN, finalErr, calls, keys, timerVars>>

DiscoverLambda(d) ==
    /\ IsDiscovery(d) /\ Alive /\ task[d] = "d1"
    /\ \E r \in [GetFunction : Answers(cloud.fn), ListTags : Answers(cloud.fn),
                 GetFunctionUrlConfig : Answers(cloud.url)] :
         LET out == discoverLambdaResources(cloud, dsnap, r) IN
         /\ Faults(out, r)
         /\ lookupErrs' = lookupErrs \cup Denied(out, r)
         /\ dsnap' = out.state
         /\ task' = [task EXCEPT ![d] = IF out.err THEN "err" ELSE "d2"]
         /\ IF out.err THEN Assign(d, NIL) ELSE UNCHANGED <<state, finalState>>
    /\ UNCHANGED <<svcVars, cfgVars, mainVars, cloud, roleARN, finalErr, calls, keys, timerVars>>

DiscoverLogs(d) ==
    /\ IsDiscovery(d) /\ Alive /\ task[d] = "d2"
    /\ \E r \in [DescribeLogGroups : Answers(TRUE),
                 ListTagsForResource : Answers(cloud.logGroup)] :
         LET out == discoverLogsResources(cloud, dsnap, r) IN
         /\ Faults(out, r)
         /\ lookupErrs' = lookupErrs \cup Denied(out, r)
         /\ dsnap' = out.state
         /\ task' = [task EXCEPT ![d] = IF out.err THEN "err" ELSE "ok"]
         /\ Assign(d, IF out.err THEN NIL ELSE out.state)
    /\ UNCHANGED <<svcVars, cfgVars, mainVars, cloud, roleARN, finalErr, calls, keys, timerVars>>

\* validateAuth of the deployed function: the token of the request is the
\* TSE_AUTH_TOKEN of the function's environment, which is not empty.
validateAuth(c, token) == c.fn /\ c.fnToken # "" /\ token = c.fnToken

(* ------------------------- mutating provider calls --------------------- *)
\* When the provider can carry a call out. Creating what is already there is a
\* conflict; attaching and putting a policy are idempotent but need the role;
\* a role with policies cannot be deleted.
Pre(call, c) ==
    CASE call = "CreateLogGroup" -> ~c.logGroup
      [] call = "PutRetentionPolicy" -> c.logGroup
      [] call = "CreateRole" -> ~c.role
      [] call = "AttachRolePolicy" -> c.role
      [] call = "PutRolePolicy" -> c.role
      [] call = "CreateFunction" -> ~c.fn /\ c.role
      [] call = "CreateFunctionUrlConfig" -> c.fn /\ ~c.url
      [] call = "AddPermission" -> c.fn /\ ~c.perm
      [] call = "DeleteFunctionUrlConfig" -> c.url
      [] call = "DeleteFunction" -> c.fn
      [] call = "DeleteRolePolicy" -> c.inline
      [] call = "DetachRolePolicy" -> c.managed
      [] call = "DeleteRole" -> c.role /\ ~c.managed /\ ~c.inline
      [] call = "DeleteLogGroup" -> c.logGroup

Eff(call, c) ==
    CASE call = "CreateLogGroup" -> [c EXCEPT !.logGroup = TRUE, !.logTag = TagManagedBy]
      [] call = "PutRetentionPolicy" -> [c EXCEPT !.retention = TRUE]
      [] call = "CreateRole" -> [c EXCEPT !.role = TRUE, !.roleTag = TagManagedBy]
      [] call = "AttachRolePolicy" -> [c EXCEPT !.managed = TRUE]
      [] call = "PutRolePolicy" -> [c EXCEPT !.inline = TRUE]
      [] call = "CreateFunction" ->
           [c EXCEPT !.fn = TRUE, !.fnTag = TagManagedBy, !.fnToken = tseAuthToken]
      [] call = "CreateFunctionUrlConfig" -> [c EXCEPT !.url = TRUE]
      [] call = "AddPermission" -> [c EXCEPT !.perm = TRUE]
      [] call = "DeleteFunctionUrlConfig" -> [c EXCEPT !.url = FALSE]
      [] call = "DeleteFunction" ->
           [c EXCEPT !.fn = FALSE, !.url = FALSE, !.perm = FALSE, !.fnTag = "",
                     !.fnToken = ""]
      [] call = "DeleteRolePolicy" -> [c EXCEPT !.inline = FALSE]
      [] call = "DetachRolePolicy" -> [c EXCEPT !.managed = FALSE]
      [] call = "DeleteRole" -> [c EXCEPT !.role = FALSE, !.roleTag = ""]
      [] call = "DeleteLogGroup" ->
           [c EXCEPT !.logGroup = FALSE, !.retention = FALSE, !.logTag = ""]

\* One provider call made by the goroutine of step op, which moves to status
\* `good` when the call succeeds and to "err" when it fails.
Call(op, from, call, good) ==
    /\ Alive /\ task[op] = from
    /\ \E ok \in BOOLEAN :
         /\ ok => Pre(call, cloud) /\ ~ctxDone
         /\ Issue(call, IF ok THEN "ok" ELSE "err")
         /\ cloud' = IF ok THEN Eff(call, cloud) ELSE cloud
         /\ task' = [task EXCEPT ![op] = IF ok THEN good ELSE "err"]
         /\ roleARN' = IF call = "CreateRole"
                       THEN (IF ok THEN RoleARNValue ELSE "")
                       ELSE roleARN
    /\ UNCHANGED <<svcVars, cfgVars, mainVars, state, finalState, finalErr, dsnap, lookupErrs,
                   keys, denied, timerVars>>

(* ------------------------------- creation ------------------------------ *)
createLogGroup ==
    \/ Call("logGroup", "ready", "CreateLogGroup", "mid")
    \/ Call("logGroup", "mid", "PutRetentionPolicy", "ok")

createIAMRole == Call("role", "ready", "CreateRole", "ok")

attachManagedPolicy == Call("managed", "ready", "AttachRolePolicy", "ok")

createInlinePolicy == Call("inline", "ready", "PutRolePolicy", "ok")

createFunctionURL ==
    \/ Call("url", "ready", "CreateFunctionUrlConfig", "mid")
    \/ Call("url", "mid", "AddPermission", "ok")

\* go build and zip: no provider call.
buildLambdaZip ==
    /\ Alive /\ task["build"] = "ready"
    /\ \E ok \in BOOLEAN : task' = [task EXCEPT !["build"] = IF ok THEN "ok" ELSE "err"]
    /\ UNCHANGED <<svcVars, cfgVars, mainVars, cloud, state, finalState, roleARN, finalErr, dsnap,
                   lookupErrs, calls, keys, denied, timerVars>>

\* What CreateFunction may answer: success, the role-cannot-be-assumed error
\* (InvalidParameterValueException ... cannot be assumed), or any other error.
\* An empty role ARN is refused outright.
FunctionAnswers ==
    {"other"}
    \cup (IF roleArg # "" /\ ~ctxDone THEN {"prop"} ELSE {})
    \cup (IF roleArg # "" /\ ~ctxDone /\ Pre("CreateFunction", cloud) THEN {"ok"} ELSE {})

isIAMPropagationError(e) == e = "prop"

\* createLambdaFunction as the operation of the first spinner.
createLambdaFunction ==
    /\ Alive /\ task["function"] = "ready"
    /\ \E a \in FunctionAnswers :
         /\ Issue("CreateFunction", IF a = "other" THEN "err" ELSE a)
         /\ cloud' = IF a = "ok" THEN Eff("CreateFunction", cloud) ELSE cloud
         /\ task' = [task EXCEPT !["function"] =
                        IF a = "ok" THEN "ok" ELSE IF a = "prop" THEN "prop" ELSE "err"]
    /\ UNCHANGED <<svcVars, cfgVars, mainVars, state, finalState, roleARN, finalErr, dsnap,
                   lookupErrs, keys, denied, timerVars>>

(* ----------------- WithRotatingMessages: the retry goroutine ----------- *)
\* The goroutine at its select. case <-ticker.C: a tick has come (one a
\* second); checkFunc, the closure of createLambdaFunctionWithRetry, runs.
RetryCheck ==
    /\ Alive /\ task["retry"] = "ready"
    /\ ticks < MaxTicks
    /\ ticks' = ticks + 1
    /\ \E a \in FunctionAnswers :
         /\ Issue("CreateFunction", IF a = "other" THEN "err" ELSE a)
         /\ cloud' = IF a = "ok" THEN Eff("CreateFunction", cloud) ELSE cloud
         /\ finalErr' = IF a = "ok" \/ isIAMPropagationError(a) THEN finalErr ELSE TRUE
         /\ task' = [task EXCEPT !["retry"] =
                        IF isIAMPropagationError(a) THEN "ready" ELSE "ok"]
    /\ UNCHANGED <<svcVars, cfgVars, mainVars, state, finalState, roleARN, dsnap, lookupErrs,
                   keys, denied>>

\* case <-timeout: time.After(2 * time.Minute) has fired;
\* doneMsg{err: timeout waiting for propagation}.
RetryTimeout ==
    /\ Alive /\ task["retry"] = "ready"
    /\ task' = [task EXCEPT !["retry"] = "timeout"]
    /\ UNCHANGED <<svcVars, cfgVars, mainVars, cloud, state, finalState, roleARN, finalErr, dsnap,
                   lookupErrs, calls, keys, denied, timerVars>>

(* ------------------------------- deletion ------------------------------ *)
deleteFunctionURL == Call("delURL", "ready", "DeleteFunctionUrlConfig", "ok")

deleteLambdaFunction == Call("delFn", "ready", "DeleteFunction", "ok")

deleteInlinePolicy == Call("delInline", "ready", "DeleteRolePolicy", "ok")

detachManagedPolicy == Call("detach", "ready", "DetachRolePolicy", "ok")

deleteIAMRole == Call("delRole", "ready", "DeleteRole", "ok")

deleteLogGroup == Call("delLog", "ready", "DeleteLogGroup", "ok")

(* --------------------------- the main goroutine ------------------------ *)
Go(next) ==
    /\ pc' = next
    /\ waiting' = FALSE
    /\ UNCHANGED <<tseAuthToken, wasGenerated, isLegacy, result>>

Return(r) ==
    /\ pc' = "done"
    /\ waiting' = FALSE
    /\ result' = r
    /\ UNCHANGED <<tseAuthToken, wasGenerated, isLegacy>>

Failure(at) == Return([kind |-> "error", at |-> at])

\* A nil pointer dereference: (*InfrastructureState)(nil).IsComplete().
Panic(at) == Return([kind |-> "panic", at |-> at])

generateAuthToken == "generated"

\* Setup: is the step's create needed, by the state of the first discovery.
SetupNeeded(op) ==
    CASE op = "logGroup" -> state.LogGroup = NIL
      [] op = "role" -> state.IAMRole = NIL
      [] op = "managed" -> ~state.Policies.Managed
      [] op = "inline" -> state.Policies.InlineName = ""
      [] op = "build" -> state.Lambda = NIL
      [] op = "url" -> state.FunctionURL = ""
      [] OTHER -> TRUE

NextSetupStep(op) ==
    CASE op = "clients" -> "logGroup"
      [] op = "logGroup" -> "role"
      [] op = "role" -> "managed"
      [] op = "managed" -> "inline"
      [] op = "inline" -> "build"
      [] op = "build" -> "function"
      [] op = "function" -> "url"
      [] op = "retry" -> "url"
      [] op = "url" -> "verify"

\* A variant of AlreadyDeployed that reports a newly generated token.
AlreadyDeployed_Generated ==
    Return([kind |-> "ok", State |-> state,
            AuthToken |-> generateAuthToken, WasGenerated |-> TRUE])

\* Setup returning early: the infrastructure is already deployed.
AlreadyDeployed ==
    Return([kind |-> "ok", State |-> state,
            AuthToken |-> env.TSE_AUTH_TOKEN, WasGenerated |-> FALSE])

\* A variant of SecretMissing that never looks at the secret.
SecretMissing_Unchecked == FALSE

\* Setup: tailscaleAuthKey == "".
SecretMissing == env.TAILSCALE_AUTH_KEY = ""

\* Setup after the spinner of step op has returned e ("nil" or an error).
\* A variant of AfterSetup that generates a credential whatever TSE_AUTH_TOKEN is.
AfterSetup_AlwaysGenerates(op, e) ==
    CASE op = "discover" ->
           IF e # "nil" THEN Failure(op)
           ELSE IF state = NIL THEN Panic(op)
           ELSE IF IsComplete(state) THEN AlreadyDeployed
           ELSE IF SecretMissing THEN Failure("secret")
           ELSE /\ pc' = "clients"
                /\ waiting' = FALSE
                /\ tseAuthToken' = generateAuthToken
                /\ wasGenerated' = TRUE
                /\ UNCHANGED <<isLegacy, result>>
      [] op \in {"logGroup", "role", "managed", "inline", "build", "url"} ->
           IF e # "nil" THEN Failure(op) ELSE Go(NextSetupStep(op))
      [] op = "function" ->
           IF e = "nil" THEN Go("url")
           ELSE IF isIAMPropagationError(e) THEN Go("retry")
           ELSE Failure(op)
      [] op = "retry" ->
           IF e # "nil" THEN Failure("timeout")
           ELSE IF finalErr THEN Failure(op)
           ELSE Go("url")
      [] op = "verify" ->
           IF e # "nil" THEN Failure(op)
           ELSE Return([kind |-> "ok", State |-> finalState,
                        AuthToken |-> tseAuthToken, WasGenerated |-> wasGenerated])

AfterSetup(op, e) ==
    CASE op = "discover" ->
           IF e # "nil" THEN Failure(op)
           ELSE IF state = NIL THEN Panic(op)
           ELSE IF IsComplete(state) THEN AlreadyDeployed
           ELSE IF SecretMissing THEN Failure("secret")
           ELSE /\ pc' = "clients"
                /\ waiting' = FALSE
                /\ tseAuthToken' = IF env.TSE_AUTH_TOKEN = ""
                                   THEN generateAuthToken ELSE env.TSE_AUTH_TOKEN
                /\ wasGenerated' = (env.TSE_AUTH_TOKEN = "")
                /\ UNCHANGED <<isLegacy, result>>
      [] op \in {"logGroup", "role", "managed", "inline", "build", "url"} ->
           IF e # "nil" THEN Failure(op) ELSE Go(NextSetupStep(op))
      [] op = "function" ->
           IF e = "nil" THEN Go("url")
           ELSE IF isIAMPropagationError(e) THEN Go("retry")
           ELSE Failure(op)
      [] op = "retry" ->
           IF e # "nil" THEN Failure("timeout")
           ELSE IF finalErr THEN Failure(op)
           ELSE Go("url")
      [] op = "verify" ->
           IF e # "nil" THEN Failure(op)
           ELSE Return([kind |-> "ok", State |-> finalState,
                        AuthToken |-> tseAuthToken, WasGenerated |-> wasGenerated])

\* A variant of TeardownNeeded that leaves a legacy log group alone.
TeardownNeeded_KeepLegacyLogs(op) ==
    CASE op = "delURL" -> state.FunctionURL # "" /\ state.Lambda # NIL
      [] op = "delFn" -> state.Lambda # NIL
      [] op = "delInline" -> state.Policies.InlineName # "" /\ state.IAMRole # NIL
      [] op = "detach" -> state.Policies.Managed /\ state.IAMRole # NIL
      [] op = "delRole" -> state.IAMRole # NIL
      [] op = "delLog" -> state.LogGroup # NIL /\ ~isLegacy
      [] OTHER -> TRUE

\* Teardown: is the step's delete needed, by the discovered state.
TeardownNeeded(op) ==
    CASE op = "delURL" -> state.FunctionURL # "" /\ state.Lambda # NIL
      [] op = "delFn" -> state.Lambda # NIL
      [] op = "delInline" -> state.Policies.InlineName # "" /\ state.IAMRole # NIL
      [] op = "detach" -> state.Policies.Managed /\ state.IAMRole # NIL
      [] op = "delRole" -> state.IAMRole # NIL
      [] op = "delLog" -> state.LogGroup # NIL
      [] OTHER -> TRUE

NextTeardownStep(op) ==
    CASE op = "clients" -> "delURL"
      [] op = "delURL" -> "delFn"
      [] op = "delFn" -> "delInline"
      [] op = "delInline" -> "detach"
      [] op = "detach" -> "delRole"
      [] op = "delRole" -> "delLog"
      [] op = "delLog" -> "done"

\* A variant of detectLegacyResources that reports legacy as soon as one
\* resource lacks the tag.
detectLegacyResources_AnyUntagged(s) ==
    \E r \in {s.LogGroup, s.IAMRole, s.Lambda} :
        r # NIL /\ r.Tags.ManagedBy # TagManagedBy

\* detectLegacyResources: resources are there and none of them carries the
\* tag ManagedBy=tse.
detectLegacyResources(s) ==
    LET present == {r \in {s.LogGroup, s.IAMRole, s.Lambda} : r # NIL}
        hasResources == present # {}
        hasTaggedResource == \E r \in present : r.Tags.ManagedBy = TagManagedBy
    IN  hasResources /\ ~hasTaggedResource

\* Teardown, steps 2 to 4: the legacy check and its message, then on to the
\* clients.
ShowPlan ==
    /\ pc' = "clients"
    /\ waiting' = FALSE
    /\ isLegacy' = detectLegacyResources(state)
    /\ UNCHANGED <<tseAuthToken, wasGenerated, result>>

\* A variant of AfterTeardown that returns the error of a failed deletion.
AfterTeardown_StopOnFailure(op, e) ==
    CASE op = "discover" ->
           IF e # "nil" THEN Failure(op)
           ELSE IF state = NIL THEN Panic(op)
           ELSE IF ~Exists(state) THEN Return([kind |-> "ok", found |-> FALSE])
           ELSE ShowPlan
      [] OTHER ->
           IF e # "nil" THEN Failure(op)
           ELSE IF op = "delLog" THEN Return([kind |-> "ok", found |-> TRUE])
           ELSE Go(NextTeardownStep(op))

\* Teardown after the call (or the spinner) of step op has returned e: a failed
\* deletion prints a warning and the sequence goes on.
AfterTeardown(op, e) ==
    CASE op = "discover" ->
           IF e # "nil" THEN Failure(op)
           ELSE IF state = NIL THEN Panic(op)
           ELSE IF ~Exists(state) THEN Return([kind |-> "ok", found |-> FALSE])
           ELSE ShowPlan
      [] op = "delLog" -> Return([kind |-> "ok", found |-> TRUE])
      [] OTHER -> Go(NextTeardownStep(op))

Needed(op) == IF cmd = "deploy" THEN SetupNeeded(op) ELSE TeardownNeeded(op)

After(op, e) == IF cmd = "deploy" THEN AfterSetup(op, e) ELSE AfterTeardown(op, e)

ErrOf(st) == IF st = "ok" THEN "nil" ELSE st

\* A variant of Confirmed that takes "yes" for a confirmation too.
Confirmed_Yes(response) == TrimSpace(response) \in {<<"y", "e", "s">>, ConfirmToken}

\* runTeardown: response = strings.TrimSpace(response); response == "DELETE".
Confirmed(response) == TrimSpace(response) = ConfirmToken

\* runTeardown: read the confirmation line and compare it with the token.
runTeardown ==
    /\ pc = "confirm"
    /\ IF ~HasNewline(stdin) THEN Failure("confirm")
       ELSE IF ~Confirmed(ReadString(stdin))
            THEN Return([kind |-> "cancelled"])
       ELSE Go("discover")
    /\ UNCHANGED <<svcVars, cfgVars, cloud, state, finalState, roleARN, roleArg, finalErr, task,
                   dsnap, lookupErrs, calls, keys, denied, timerVars>>

\* NewAWSClients in Setup and Teardown (config.LoadDefaultConfig may fail).
NewAWSClients ==
    /\ pc = "clients"
    /\ \E ok \in BOOLEAN :
         IF ok THEN Go(IF cmd = "deploy" THEN NextSetupStep(pc) ELSE NextTeardownStep(pc))
         ELSE Failure(pc)
    /\ UNCHANGED <<svcVars, cfgVars, cloud, state, finalState, roleARN, roleArg, finalErr, task,
                   dsnap, lookupErrs, calls, keys, denied, timerVars>>

\* The step is not needed: the resource is in the discovered state.
Skip(op) ==
    /\ pc = op /\ ~waiting /\ ~Needed(op)
    /\ IF cmd = "deploy"
       THEN Go(IF op = "build" THEN "url" ELSE NextSetupStep(op))
       ELSE IF op = "delLog" THEN Return([kind |-> "ok", found |-> TRUE])
       ELSE Go(NextTeardownStep(op))
    /\ roleARN' = IF cmd = "deploy" /\ op = "role" THEN RoleARNValue ELSE roleARN
    /\ UNCHANGED <<svcVars, cfgVars, cloud, state, finalState, roleArg, finalErr, task, dsnap,
                   lookupErrs, calls, keys, denied, timerVars>>

\* WithSpinner / WithRotatingMessages: start the goroutine of the step and run
\* the terminal program. (teardown.go calls the operation directly: the same
\* steps, without a terminal program that reads keys.)
WithSpinnerStart(op) ==
    /\ pc = op /\ ~waiting /\ Needed(op)
    /\ task[op] = "none"
    /\ task' = [task EXCEPT ![op] = "ready"]
    /\ waiting' = TRUE
    /\ roleArg' = IF op = "function" THEN roleARN ELSE roleArg
    /\ UNCHANGED <<svcVars, cfgVars, cloud, pc, state, finalState, roleARN, tseAuthToken,
                   wasGenerated, isLegacy, finalErr, result, dsnap, lookupErrs, calls, keys,
                   denied, timerVars>>

\* Update, case doneMsg: the operation returned; the spinner returns its error.
WithSpinnerDone(op) ==
    /\ pc = op /\ waiting
    /\ task[op] \in Finished
    /\ After(op, ErrOf(task[op]))
    /\ lookupErrs' = IF IsDiscovery(op) THEN {} ELSE lookupErrs
    /\ UNCHANGED <<svcVars, cfgVars, cloud, state, finalState, roleARN, roleArg, finalErr, task,
                   dsnap, calls, keys, denied, timerVars>>

\* Update, case tea.KeyMsg with KeyCtrlC: the program quits, final.err is nil
\* and the spinner returns nil, whatever the operation is doing.
WithSpinnerCtrlC(op) ==
    /\ pc = op /\ waiting
    /\ impl = "spinner"
    /\ keys < MaxKeys
    /\ keys' = keys + 1
    /\ After(op, "nil")
    /\ lookupErrs' = IF IsDiscovery(op) THEN {} ELSE lookupErrs
    /\ UNCHANGED <<svcVars, cfgVars, cloud, state, finalState, roleARN, roleArg, finalErr, task,
                   dsnap, calls, denied, timerVars>>

\* Steps of the goroutines every command starts: discovery.
Discovery ==
    \/ \E d \in {"discover", "verify"} : DiscoverIAM(d)
    \/ \E d \in {"discover", "verify"} : DiscoverLambda(d)
    \/ \E d \in {"discover", "verify"} : DiscoverLogs(d)

Main ==
    \/ NewAWSClients
    \/ \E op \in Ops : Skip(op)
    \/ \E op \in Ops : WithSpinnerStart(op)
    \/ \E op \in Ops : WithSpinnerDone(op)
    \/ \E op \in Ops : WithSpinnerCtrlC(op)

\* tse deploy: infrastructure.Setup.
SetupInit == Start({"deploy"}) /\ other = NIL

SetupNext ==
    \/ Main
    \/ Discovery
    \/ createLogGroup
    \/ createIAMRole
    \/ attachManagedPolicy
    \/ createInlinePolicy
    \/ buildLambdaZip
    \/ createLambdaFunction
    \/ RetryCheck
    \/ RetryTimeout
    \/ createFunctionURL

SetupSpec == SetupInit /\ [][SetupNext]_vars

\* tse teardown: runTeardown and infrastructure.Teardown.
TeardownInit == Start({"teardown"}) /\ other = NIL

TeardownNext ==
    \/ runTeardown
    \/ Main
    \/ Discovery
    \/ deleteFunctionURL
    \/ deleteLambdaFunction
    \/ deleteInlinePolicy
    \/ detachManagedPolicy
    \/ deleteIAMRole
    \/ deleteLogGroup

TeardownSpec == TeardownInit /\ [][TeardownNext]_vars

(* ------------------- Setup under a context that ends ------------------- *)
\* The caller of Setup cancels ctx, or its deadline passes.
Cancel ==
    /\ cmd = "deploy" /\ Alive /\ ~ctxDone
    /\ ctxDone' = TRUE
    /\ UNCHANGED <<svcVars, cmd, impl, stdin, env, other, request, acl, mainVars, cloud, state,
                   finalState, roleARN, finalErr, task, dsnap, lookupErrs, calls, keys, denied,
                   timerVars>>

\* tse deploy with the secret set, on an account without the function, under
\* a context that may end at any moment.
CancelInit ==
    /\ Start({"deploy"})
    /\ ~cloud.fn
    /\ env = [TAILSCALE_AUTH_KEY |-> "tskey-auth", TSE_AUTH_TOKEN |-> ""]
    /\ other = NIL

CancelNext ==
    \/ SetupNext
    \/ Cancel

CancelSpec == CancelInit /\ [][CancelNext]_vars

(* ---------------------- Setup after failed runs ------------------------ *)
\* What failed runs of Setup can leave at the provider: the resources in any
\* combination, each with its tag, a log group with or without its retention
\* policy (createLogGroup failed between its two calls) and an endpoint with or
\* without the invoke permission (createFunctionURL failed between its two).
LeftBehindStates ==
    { [c EXCEPT !.retention = r, !.perm = g] :
        c \in TaggedCloudStates,
        r \in BOOLEAN,
        g \in BOOLEAN } \cap
    { c \in [logGroup : BOOLEAN, retention : BOOLEAN, role : BOOLEAN,
             managed : BOOLEAN, inline : BOOLEAN, fn : BOOLEAN, url : BOOLEAN,
             perm : BOOLEAN, logTag : {"", TagManagedBy}, roleTag : {"", TagManagedBy},
             fnTag : {"", TagManagedBy}, fnToken : {"", OldToken}] :
        (c.retention => c.logGroup) /\ (c.perm => c.url) }

\* tse deploy once more, on what the failed runs left.
RerunInit ==
    /\ cloud \in LeftBehindStates
    /\ cmd = "deploy"
    /\ impl = "spinner"
    /\ stdin = <<>>
    /\ env \in [TAILSCALE_AUTH_KEY : {"", "tskey-auth"}, TSE_AUTH_TOKEN : {"", "envtoken"}]
    /\ other = NIL
    /\ request = NIL
    /\ acl = NIL
    /\ ctxDone = FALSE
    /\ pc = "discover"
    /\ waiting = FALSE
    /\ state = NIL
    /\ finalState = NIL
    /\ roleARN = ""
    /\ roleArg = ""
    /\ tseAuthToken = ""
    /\ wasGenerated = FALSE
    /\ isLegacy = FALSE
    /\ finalErr = FALSE
    /\ result = [kind |-> "running"]
    /\ task = [o \in Ops |-> "none"]
    /\ dsnap = EmptyState
    /\ lookupErrs = {}
    /\ calls = EmptyBag
    /\ keys = 0
    /\ denied = 0
    /\ ticks = 0
    /\ NoService

RerunSpec == RerunInit /\ [][SetupNext]_vars

(* ------------------- two invocations of Setup at once ------------------ *)
\* What one invocation of Setup holds: its local variables, its goroutines and
\* the keys its terminal has delivered. The provider's resources, and the
\* history of the calls made to it, are common to the two.
Context ==
    [pc |-> pc, waiting |-> waiting, state |-> state, finalState |-> finalState,
     roleARN |-> roleARN, roleArg |-> roleArg, tseAuthToken |-> tseAuthToken,
     wasGenerated |-> wasGenerated, finalErr |-> finalErr, result |-> result,
     task |-> task, dsnap |-> dsnap, lookupErrs |-> lookupErrs, keys |-> keys,
     ticks |-> ticks]

\* The processor turns to the other invocation: the steps of Setup that follow
\* are the other's, until it turns back.
Switch ==
    /\ other # NIL
    /\ other' = Context
    /\ pc' = other.pc
    /\ waiting' = other.waiting
    /\ state' = other.state
    /\ finalState' = other.finalState
    /\ roleARN' = other.roleARN
    /\ roleArg' = other.roleArg
    /\ tseAuthToken' = other.tseAuthToken
    /\ wasGenerated' = other.wasGenerated
    /\ finalErr' = other.finalErr
    /\ result' = other.result
    /\ task' = other.task
    /\ dsnap' = other.dsnap
    /\ lookupErrs' = other.lookupErrs
    /\ keys' = other.keys
    /\ ticks' = other.ticks
    /\ UNCHANGED <<svcVars, cmd, impl, stdin, env, request, acl, ctxDone, cloud, isLegacy,
                   calls, denied>>

\* The provider rejects the creation of what is already there.
Conflict(call, c) ==
    CASE call = "CreateLogGroup" -> c.logGroup
      [] call = "CreateRole" -> c.role
      [] call = "CreateFunction" -> c.fn
      [] call = "CreateFunctionUrlConfig" -> c.url
      [] call = "AddPermission" -> c.perm
      [] OTHER -> FALSE

\* A step in which nothing fails but the creation of what is already there: no
\* lookup is answered with an unexpected error, the clients and the build
\* succeed, and a mutating call fails on a conflict only.
Unfailing ==
    /\ denied' = denied
    /\ ~(pc = "clients" /\ pc' = "done")
    /\ \A op \in {"discover", "verify", "build"} : task'[op] = "err" => task[op] = "err"
    /\ \A r \in BagToSet(calls') :
         calls'[r] > (IF r \in BagToSet(calls) THEN calls[r] ELSE 0) =>
             \/ r.ans = "ok"
             \/ r.ans = "err" /\ Conflict(r.op, cloud)

\* Two invocations of tse deploy against an empty control plane.
ConcurrentInit ==
    /\ Start({"deploy"})
    /\ \A f \in {"logGroup", "role", "fn"} : ~cloud[f]
    /\ env = [TAILSCALE_AUTH_KEY |-> "tskey-auth", TSE_AUTH_TOKEN |-> ""]
    /\ other = Context

ConcurrentNext ==
    \/ Switch
    \/ Main /\ Unfailing
    \/ Discovery /\ Unfailing
    \/ createLogGroup /\ Unfailing
    \/ createIAMRole /\ Unfailing
    \/ attachManagedPolicy /\ Unfailing
    \/ createInlinePolicy /\ Unfailing
    \/ buildLambdaZip /\ Unfailing
    \/ createLambdaFunction /\ Unfailing
    \/ createFunctionURL /\ Unfailing

ConcurrentSpec == ConcurrentInit /\ [][ConcurrentNext]_vars

(* ------------- the derived predicates of InfrastructureState ----------- *)
\* The snapshots a caller may build: every combination of the fields, the
\* three resources with any ManagedBy tag (none, tse, another tool's).
TagValues == {"", TagManagedBy, "terraform"}

Snapshots ==
    [LogGroup : {NIL} \cup {Resource(LogGroupName, t) : t \in TagValues},
     IAMRole : {NIL} \cup {Resource(RoleName, t) : t \in TagValues},
     Lambda : {NIL} \cup {Resource(FunctionName, t) : t \in TagValues},
     FunctionURL : {"", FunctionURLValue},
     Policies : [Managed : BOOLEAN, InlineName : {"", InlinePolicyName}]]

Methods == {"Exists", "IsComplete", "Missing", "HasOnlyIAMResources",
            "detectLegacyResources"}

\* What the method f returns on the snapshot s.
Value(f, s) ==
    CASE f = "Exists" -> Exists(s)
      [] f = "IsComplete" -> IsComplete(s)
      [] f = "Missing" -> Missing(s)
      [] f = "HasOnlyIAMResources" -> HasOnlyIAMResources(s)
      [] f = "detectLegacyResources" -> detectLegacyResources(s)

\* A variant of CallMethod in which Missing consumes the snapshot it reports on.
CallMethod_Mutating(f) ==
    /\ cmd = "none"
    /\ result' = [result EXCEPT ![f] = @ \cup {Value(f, state)}]
    /\ state' = IF f = "Missing" THEN [state EXCEPT !.LogGroup = NIL] ELSE state
    /\ UNCHANGED <<svcVars, cfgVars, cloud, pc, waiting, finalState, roleARN, roleArg, tseAuthToken,
                   wasGenerated, isLegacy, finalErr, task, dsnap, lookupErrs, calls, keys,
                   denied, ticks>>

\* A caller holding the snapshot `state` calls the method f on it; result[f]
\* collects what the calls of f have returned. The methods only read their
\* receiver.
CallMethod(f) ==
    /\ cmd = "none"
    /\ result' = [result EXCEPT ![f] = @ \cup {Value(f, state)}]
    /\ UNCHANGED <<svcVars, cfgVars, cloud, pc, waiting, state, finalState, roleARN, roleArg,
                   tseAuthToken, wasGenerated, isLegacy, finalErr, task, dsnap, lookupErrs,
                   calls, keys, denied, ticks>>

StateInit ==
    /\ other = NIL
    /\ cmd = "none"
    /\ impl = "plain"
    /\ stdin = <<>>
    /\ env = [TAILSCALE_AUTH_KEY |-> "", TSE_AUTH_TOKEN |-> ""]
    /\ cloud \in {c \in CloudStates : ~c.logGroup /\ ~c.role /\ ~c.fn}
    /\ pc = "done"
    /\ waiting = FALSE
    /\ state \in Snapshots
    /\ finalState = NIL
    /\ roleARN = ""
    /\ roleArg = ""
    /\ tseAuthToken = ""
    /\ wasGenerated = FALSE
    /\ isLegacy = FALSE
    /\ finalErr = FALSE
    /\ result = [f \in Methods |-> {}]
    /\ task = [o \in Ops |-> "none"]
    /\ dsnap = state
    /\ lookupErrs = {}
    /\ calls = EmptyBag
    /\ keys = 0
    /\ denied = 0
    /\ ticks = 0
    /\ request = NIL
    /\ acl = NIL
    /\ ctxDone = FALSE
    /\ NoService

StateNext == \E f \in Methods : CallMethod(f)

StateSpec == StateInit /\ [][StateNext]_vars

(* ------------------- the exit-node service (internal/aws) -------------- *)
\* ListInstances: the tagged instances the filter instance-state-name lets
\* through (pending, running, stopping, stopped).
ListInstances(e) ==
    {i \in InstanceIds : e.inst[i] \in {"pending", "running", "stopping", "stopped"}}

\* The provider's dependency checks: an instance keeps its network interface in
\* the subnet until it is terminated, and a gateway cannot be detached while a
\* public address is mapped in the network. The address of a new instance is
\* mapped some time after RunInstances has answered.
Occupied(e) == \E i \in InstanceIds : e.inst[i] \in {"pending", "running", "shutting-down"}

Mapped(e) == \E i \in InstanceIds : e.addr[i]

\* The states of the region at the start: nothing, a stack with a running
\* instance, a stack whose instance is gone.
Regions ==
    LET stack == [EmptyRegion EXCEPT !.vpc = TRUE, !.subnet = TRUE, !.igw = "attached",
                                     !.sg = TRUE]
    IN  {EmptyRegion, stack,
         [stack EXCEPT !.inst[1] = "running", !.addr[1] = TRUE]}

Goto(p, step) ==
    /\ svc' = [svc EXCEPT ![p] = step]
    /\ UNCHANGED reply

\* The handler answers the request with a status code.
Reply(p, code) ==
    /\ svc' = [svc EXCEPT ![p] = "idle"]
    /\ reply' = [reply EXCEPT ![p] = code]

\* A start request arrives: POST /{region}/start.
StartRequest ==
    /\ cmd = "service" /\ svc.start = "idle"
    /\ requests.start < MaxStarts
    /\ requests' = [requests EXCEPT !.start = @ + 1]
    /\ svc' = [svc EXCEPT !.start = "list"]
    /\ slocal' = [slocal EXCEPT !.subnetID = FALSE, !.existingInstances = {},
                                !.listed = FALSE]
    /\ UNCHANGED <<cliVars, ec2, reply>>

\* A variant of handleStartInstance that counts the running instances only.
handleStartInstance_RunningOnly ==
    /\ svc.start = "list"
    /\ \E ok \in BOOLEAN :
         LET existingInstances == {<<i, ec2.inst[i]>> : i \in ListInstances(ec2)}
             runningCount == Cardinality({x \in existingInstances : x[2] = "running"})
         IN  IF ~ok THEN Reply("start", 500) /\ UNCHANGED slocal
             ELSE /\ slocal' = [slocal EXCEPT !.existingInstances = existingInstances,
                                              !.listed = TRUE]
                  /\ IF runningCount > 0 THEN Reply("start", 409)
                     ELSE Goto("start", "vpcs")
    /\ UNCHANGED <<cliVars, ec2, requests>>

\* handleStartInstance: the listing (each instance with its state); 409 when
\* it holds a running or pending instance, StartInstance otherwise.
handleStartInstance ==
    /\ svc.start = "list"
    /\ \E ok \in BOOLEAN :
         LET existingInstances == {<<i, ec2.inst[i]>> : i \in ListInstances(ec2)}
             runningCount ==
                 Cardinality({x \in existingInstances : x[2] \in {"running", "pending"}})
         IN  IF ~ok THEN Reply("start", 500) /\ UNCHANGED slocal
             ELSE /\ slocal' = [slocal EXCEPT !.existingInstances = existingInstances,
                                              !.listed = TRUE]
                  /\ IF runningCount > 0 THEN Reply("start", 409)
                     ELSE Goto("start", "vpcs")
    /\ UNCHANGED <<cliVars, ec2, requests>>

\* findOrCreateVPCStack: DescribeVpcs, then the subnet of the stack found or
\* the creation of a stack.
findOrCreateVPCStack ==
    /\ svc.start = "vpcs"
    /\ \E ok \in BOOLEAN :
         IF ~ok THEN Reply("start", 500)
         ELSE IF ec2.vpc THEN Goto("start", "subnets")
         ELSE Goto("start", "createvpc")
    /\ UNCHANGED <<cliVars, ec2, slocal, requests>>

findSubnetInVPC ==
    /\ svc.start = "subnets"
    /\ \E ok \in BOOLEAN :
         IF ok /\ ec2.subnet
         THEN /\ Goto("start", "sg")
              /\ slocal' = [slocal EXCEPT !.subnetID = TRUE]
         ELSE /\ Reply("start", 500)
              /\ UNCHANGED slocal
    /\ UNCHANGED <<cliVars, ec2, requests>>

\* One call of createVPCStack: it succeeds only if the provider can carry it
\* out, and an error ends the request.
StackStep(from, pre, eff, to) ==
    /\ svc.start = from
    /\ \E ok \in BOOLEAN :
         IF ok /\ pre
         THEN /\ ec2' = eff
              /\ Goto("start", to)
              /\ slocal' = [slocal EXCEPT !.subnetID = (to = "sg")]
         ELSE /\ Reply("start", 500)
              /\ UNCHANGED <<ec2, slocal>>
    /\ UNCHANGED <<cliVars, requests>>

\* createVPCStack: CreateVpc, CreateSubnet, CreateInternetGateway,
\* AttachInternetGateway, then the route and the subnet attribute.
createVPCStack ==
    \/ StackStep("createvpc", TRUE, [ec2 EXCEPT !.vpc = TRUE], "createsubnet")
    \/ StackStep("createsubnet", ec2.vpc, [ec2 EXCEPT !.subnet = TRUE], "createigw")
    \/ StackStep("createigw", ec2.igw # "attached", [ec2 EXCEPT !.igw = "detached"],
                 "attachigw")
    \/ StackStep("attachigw", ec2.vpc /\ ec2.igw = "detached",
                 [ec2 EXCEPT !.igw = "attached"], "route")
    \/ StackStep("route", ec2.vpc /\ ec2.subnet /\ ec2.igw = "attached", ec2, "sg")

\* findOrCreateSecurityGroup: the group found in the network, or created.
findOrCreateSecurityGroup ==
    /\ svc.start = "sg"
    /\ \E ok \in BOOLEAN :
         IF ok /\ (ec2.sg \/ ec2.vpc)
         THEN /\ ec2' = [ec2 EXCEPT !.sg = TRUE]
              /\ Goto("start", "run")
         ELSE /\ Reply("start", 500)
              /\ UNCHANGED ec2
    /\ UNCHANGED <<cliVars, slocal, requests>>

\* StartInstance: RunInstances in the subnet found, with the tags of the service.
StartInstance ==
    /\ svc.start = "run"
    /\ \E ok \in BOOLEAN :
         LET free == {i \in InstanceIds : ec2.inst[i] = "none"} IN
         IF ok /\ slocal.subnetID /\ ec2.subnet /\ ec2.sg /\ free # {}
         THEN /\ ec2' = [ec2 EXCEPT !.inst[CHOOSE i \in free : \A j \in free : i <= j] =
                                       "pending"]
              /\ Reply("start", 201)
         ELSE /\ Reply("start", 500)
              /\ UNCHANGED ec2
    /\ UNCHANGED <<cliVars, slocal, requests>>

\* A stop request arrives: POST /{region}/stop.
StopRequest ==
    /\ cmd = "service" /\ svc.stop = "idle" /\ svc.cleanup = "idle"
    /\ requests.stop < MaxStops
    /\ requests' = [requests EXCEPT !.stop = @ + 1]
    /\ svc' = [svc EXCEPT !.stop = "list"]
    /\ slocal' = [slocal EXCEPT !.instanceIDs = {}]
    /\ UNCHANGED <<cliVars, ec2, reply>>

\* StopInstances: list, terminate what is running, pending or stopped, and
\* start the goroutine of the delayed cleanup.
StopInstances ==
    \/ /\ svc.stop = "list"
       /\ \E ok \in BOOLEAN :
            LET ids == {i \in ListInstances(ec2) :
                           ec2.inst[i] \in {"running", "pending", "stopped"}} IN
            IF ~ok THEN Reply("stop", 500) /\ UNCHANGED slocal
            ELSE IF ids = {} THEN Reply("stop", 200) /\ UNCHANGED slocal
            ELSE /\ Goto("stop", "terminate")
                 /\ slocal' = [slocal EXCEPT !.instanceIDs = ids]
       /\ UNCHANGED <<cliVars, ec2, requests>>
    \/ /\ svc.stop = "terminate"
       /\ \E ok \in BOOLEAN :
            IF ok
            THEN /\ ec2' = [ec2 EXCEPT !.inst =
                              [i \in InstanceIds |->
                                 IF i \in slocal.instanceIDs /\ @[i] \in {"pending", "running"}
                                 THEN "shutting-down" ELSE @[i]]]
                 /\ svc' = [svc EXCEPT !.stop = "idle", !.cleanup = "sleep"]
                 /\ reply' = [reply EXCEPT !.stop = 200]
            ELSE /\ Reply("stop", 500)
                 /\ UNCHANGED ec2
       /\ UNCHANGED <<cliVars, slocal, requests>>

\* Where cleanupVPCInfrastructure returns to: the goroutine of StopInstances
\* ends; ForceCleanupAllResources goes on to its report when the error is nil.
Returned(p, err) == IF p = "cleanup" THEN "idle" ELSE IF err THEN "done" ELSE "report"

\* One step of cleanupVPCInfrastructure, run by p, that changes nothing at the
\* provider.
CleanupStep(p, from, to) ==
    /\ svc[p] = from
    /\ Goto(p, to)
    /\ UNCHANGED <<cliVars, ec2, slocal, requests>>

\* One deletion call of deleteVPCStack, run by p: its error is ignored.
CleanupCall(p, from, pre, eff, to) ==
    /\ svc[p] = from
    /\ ec2' = IF pre THEN eff ELSE ec2
    /\ Goto(p, to)
    /\ UNCHANGED <<cliVars, slocal, requests>>

\* cleanupVPCInfrastructure: (in the goroutine, after the sleep) return when the
\* listing fails or holds a running or pending instance; otherwise find the
\* tagged networks.
cleanupVPCInfrastructure(p) ==
    \/ p = "cleanup" /\ CleanupStep(p, "sleep", "check")
    \/ /\ svc[p] = "check"
       /\ \E ok \in BOOLEAN :
            CleanupStep(p, "check",
                IF ~ok THEN Returned(p, TRUE)
                ELSE IF \E i \in ListInstances(ec2) : ec2.inst[i] \in {"running", "pending"}
                THEN Returned(p, FALSE)
                ELSE "vpcs")
    \/ /\ svc[p] = "vpcs"
       /\ \E ok \in BOOLEAN :
            CleanupStep(p, "vpcs",
                IF ~ok THEN Returned(p, TRUE)
                ELSE IF ec2.vpc THEN "igws" ELSE Returned(p, FALSE))

\* deleteVPCStack: detach and delete the gateways found, delete the subnets
\* found, delete the network.
deleteVPCStack(p) ==
    \/ /\ svc[p] = "igws"
       /\ \E ok \in BOOLEAN :
            CleanupStep(p, "igws", IF ok /\ ec2.igw = "attached" THEN "detach" ELSE "subnets")
    \/ CleanupCall(p, "detach", ec2.igw = "attached" /\ ~Mapped(ec2),
                   [ec2 EXCEPT !.igw = "detached"], "deligw")
    \/ CleanupCall(p, "deligw", ec2.igw = "detached", [ec2 EXCEPT !.igw = "none"],
                   "subnets")
    \/ /\ svc[p] = "subnets"
       /\ \E ok \in BOOLEAN :
            CleanupStep(p, "subnets", IF ok /\ ec2.subnet THEN "delsubnet" ELSE "delvpc")
    \/ CleanupCall(p, "delsubnet", ec2.subnet /\ ~Occupied(ec2),
                   [ec2 EXCEPT !.subnet = FALSE], "delvpc")
    \/ CleanupCall(p, "delvpc",
                   ec2.vpc /\ ~ec2.subnet /\ ec2.igw # "attached" /\ ~ec2.sg,
                   [ec2 EXCEPT !.vpc = FALSE], Returned(p, FALSE))

\* A forced cleanup request arrives: POST /{region}/cleanup.
CleanupRequest ==
    /\ cmd = "service" /\ svc.force = "idle"
    /\ requests.force < MaxForce
    /\ requests' = [requests EXCEPT !.force = @ + 1]
    /\ svc' = [svc EXCEPT !.force = "list"]
    /\ slocal' = [slocal EXCEPT !.forceIDs = {}, !.cleanedResources = {}]
    /\ UNCHANGED <<cliVars, ec2, reply>>

\* ForceCleanupAllResources, step 1: terminate, one call each, the instances
\* listed as running, pending or stopped; then sleep 5 seconds.
ForceTerminate ==
    \/ /\ svc.force = "list"
       /\ \E ok \in BOOLEAN :
            slocal' = [slocal EXCEPT !.forceIDs =
                          IF ok THEN {i \in ListInstances(ec2) :
                                         ec2.inst[i] \in {"running", "pending", "stopped"}}
                          ELSE {}]
       /\ Goto("force", "terminate")
       /\ UNCHANGED <<cliVars, ec2, requests>>
    \/ /\ svc.force = "terminate" /\ slocal.forceIDs # {}
       /\ LET i == CHOOSE k \in slocal.forceIDs : \A j \in slocal.forceIDs : k <= j IN
          \E ok \in BOOLEAN :
            /\ ec2' = IF ok /\ ec2.inst[i] \in {"pending", "running"}
                      THEN [ec2 EXCEPT !.inst[i] = "shutting-down"] ELSE ec2
            /\ slocal' = [slocal EXCEPT !.forceIDs = @ \ {i},
                                        !.cleanedResources =
                                            IF ok THEN @ \cup {<<"Instance", i>>} ELSE @]
       /\ Goto("force", "terminate")
       /\ UNCHANGED <<cliVars, requests>>
    \/ /\ svc.force = "terminate" /\ slocal.forceIDs = {}
       /\ Goto("force", "sgs")
       /\ UNCHANGED <<cliVars, ec2, slocal, requests>>

\* ForceCleanupAllResources, step 2: delete the tagged security groups. The
\* provider refuses while a network interface of an instance uses the group.
ForceDeleteSecurityGroups ==
    \/ /\ svc.force = "sgs"
       /\ \E ok \in BOOLEAN : Goto("force", IF ok /\ ec2.sg THEN "delsg" ELSE "check")
       /\ UNCHANGED <<cliVars, ec2, slocal, requests>>
    \/ /\ svc.force = "delsg"
       /\ LET ok == ec2.sg /\ ~Occupied(ec2) IN
          /\ ec2' = IF ok THEN [ec2 EXCEPT !.sg = FALSE] ELSE ec2
          /\ slocal' = [slocal EXCEPT !.cleanedResources =
                                         IF ok THEN @ \cup {<<"SecurityGroup", 0>>} ELSE @]
       /\ Goto("force", "check")
       /\ UNCHANGED <<cliVars, requests>>

\* ForceCleanupAllResources, step 3 after cleanupVPCInfrastructure: when it
\* returned nil, report the tagged networks DescribeVpcs finds; then
\* handleCleanupResources answers 200.
ForceReport ==
    /\ svc.force \in {"report", "done"}
    /\ \E ok \in BOOLEAN :
         slocal' = [slocal EXCEPT !.cleanedResources =
                       IF svc.force = "report" /\ ok /\ ec2.vpc
                       THEN @ \cup {<<"VPC", 0>>} ELSE @]
    /\ Reply("force", 200)
    /\ UNCHANGED <<cliVars, ec2, requests>>

\* The provider moves an instance on: the public address of a pending instance
\* is mapped, the instance runs; an instance shutting down is terminated.
InstanceProgress ==
    /\ cmd = "service"
    /\ \E i \in InstanceIds :
         \/ /\ ec2.inst[i] = "pending" /\ ~ec2.addr[i]
            /\ ec2' = [ec2 EXCEPT !.addr[i] = TRUE]
         \/ /\ ec2.inst[i] = "pending" /\ ec2.addr[i]
            /\ ec2' = [ec2 EXCEPT !.inst[i] = "running"]
         \/ /\ ec2.inst[i] = "shutting-down"
            /\ ec2' = [ec2 EXCEPT !.inst[i] = "terminated", !.addr[i] = FALSE]
    /\ UNCHANGED <<cliVars, svc, slocal, reply, requests>>

\* The deployed function serving start and stop requests for one region.
ServiceInit ==
    /\ other = NIL
    /\ request = NIL
    /\ acl = NIL
    /\ ctxDone = FALSE
    /\ cmd = "service"
    /\ impl = "plain"
    /\ stdin = <<>>
    /\ env = [TAILSCALE_AUTH_KEY |-> "tskey-auth", TSE_AUTH_TOKEN |-> OldToken]
    /\ cloud \in {c \in TaggedCloudStates : c.logGroup /\ c.role /\ c.managed /\ c.inline /\ c.url}
    /\ pc = "done"
    /\ waiting = FALSE
    /\ state = NIL
    /\ finalState = NIL
    /\ roleARN = ""
    /\ roleArg = ""
    /\ tseAuthToken = ""
    /\ wasGenerated = FALSE
    /\ isLegacy = FALSE
    /\ finalErr = FALSE
    /\ result = [kind |-> "running"]
    /\ task = [o \in Ops |-> "none"]
    /\ dsnap = EmptyState
    /\ lookupErrs = {}
    /\ calls = EmptyBag
    /\ keys = 0
    /\ denied = 0
    /\ ticks = 0
    /\ ec2 \in Regions
    /\ svc = [p \in Procs |-> "idle"]
    /\ slocal = NoLocals
    /\ reply = [start |-> 0, stop |-> 0, force |-> 0]
    /\ requests = [start |-> 0, stop |-> 0, force |-> 0]

ServiceNext ==
    \/ StartRequest
    \/ handleStartInstance
    \/ findOrCreateVPCStack
    \/ findSubnetInVPC
    \/ createVPCStack
    \/ findOrCreateSecurityGroup
    \/ StartInstance
    \/ StopRequest
    \/ StopInstances
    \/ \E p \in {"cleanup", "force"} : cleanupVPCInfrastructure(p)
    \/ \E p \in {"cleanup", "force"} : deleteVPCStack(p)
    \/ CleanupRequest
    \/ ForceTerminate
    \/ ForceDeleteSecurityGroups
    \/ ForceReport
    \/ InstanceProgress

ServiceSpec == ServiceInit /\ [][ServiceNext]_vars

(* --------------- two start requests handled at the same time ----------- *)
\* What one invocation of the handler holds for a start request: the step it
\* is at, its local variables and its answer. The region is common to the two.
StartContext ==
    [step |-> svc.start, subnetID |-> slocal.subnetID,
     existingInstances |-> slocal.existingInstances, listed |-> slocal.listed,
     reply |-> reply.start]

\* The steps that follow are those of the other invocation.
SwitchHandler ==
    /\ cmd = "service" /\ other # NIL
    /\ other' = StartContext
    /\ svc' = [svc EXCEPT !.start = other.step]
    /\ slocal' = [slocal EXCEPT !.subnetID = other.subnetID,
                                !.existingInstances = other.existingInstances,
                                !.listed = other.listed]
    /\ reply' = [reply EXCEPT !.start = other.reply]
    /\ UNCHANGED <<cmd, impl, stdin, env, request, acl, ctxDone, cloud, pc, waiting, state,
                   finalState, roleARN, roleArg, tseAuthToken, wasGenerated, isLegacy,
                   finalErr, result, task, dsnap, lookupErrs, calls, keys, denied, ticks,
                   ec2, requests>>

\* The deployed function with two invocations that serve start requests for
\* the same region.
StartsInit ==
    /\ request = NIL
    /\ acl = NIL
    /\ ctxDone = FALSE
    /\ cmd = "service"
    /\ impl = "plain"
    /\ stdin = <<>>
    /\ env = [TAILSCALE_AUTH_KEY |-> "tskey-auth", TSE_AUTH_TOKEN |-> OldToken]
    /\ cloud \in {c \in TaggedCloudStates : c.logGroup /\ c.role /\ c.managed /\ c.inline /\ c.url}
    /\ pc = "done"
    /\ waiting = FALSE
    /\ state = NIL
    /\ finalState = NIL
    /\ roleARN = ""
    /\ roleArg = ""
    /\ tseAuthToken = ""
    /\ wasGenerated = FALSE
    /\ isLegacy = FALSE
    /\ finalErr = FALSE
    /\ result = [kind |-> "running"]
    /\ task = [o \in Ops |-> "none"]
    /\ dsnap = EmptyState
    /\ lookupErrs = {}
    /\ calls = EmptyBag
    /\ keys = 0
    /\ denied = 0
    /\ ticks = 0
    /\ ec2 \in Regions
    /\ svc = [p \in Procs |-> "idle"]
    /\ slocal = NoLocals
    /\ reply = [start |-> 0, stop |-> 0, force |-> 0]
    /\ requests = [start |-> 0, stop |-> 0, force |-> 0]
    /\ other = StartContext

StartsNext ==
    \/ StartRequest
    \/ handleStartInstance
    \/ findOrCreateVPCStack
    \/ findSubnetInVPC
    \/ createVPCStack
    \/ findOrCreateSecurityGroup
    \/ StartInstance
    \/ InstanceProgress
    \/ SwitchHandler

StartsSpec == StartsInit /\ [][StartsNext]_vars

(* ------------- teardown of an account that has exit nodes -------------- *)
\* tse teardown on a deployed control plane whose region holds what the
\* service has left there: nothing, a network stack, a stack with a running
\* exit node.
NodesInit ==
    /\ cmd = "teardown"
    /\ cloud \in TaggedCloudStates
    /\ impl \in {"plain", "spinner"}
    /\ stdin \in Inputs
    /\ env = [TAILSCALE_AUTH_KEY |-> "", TSE_AUTH_TOKEN |-> ""]
    /\ pc = "confirm"
    /\ waiting = FALSE
    /\ state = NIL
    /\ finalState = NIL
    /\ roleARN = ""
    /\ roleArg = ""
    /\ tseAuthToken = ""
    /\ wasGenerated = FALSE
    /\ isLegacy = FALSE
    /\ finalErr = FALSE
    /\ result = [kind |-> "running"]
    /\ task = [o \in Ops |-> "none"]
    /\ dsnap = EmptyState
    /\ lookupErrs = {}
    /\ calls = EmptyBag
    /\ keys = 0
    /\ denied = 0
    /\ ticks = 0
    /\ other = NIL
    /\ request = NIL
    /\ acl = NIL
    /\ ctxDone = FALSE
    /\ ec2 \in Regions
    /\ svc = [p \in Procs |-> "idle"]
    /\ slocal = NoLocals
    /\ reply = [start |-> 0, stop |-> 0, force |-> 0]
    /\ requests = [start |-> 0, stop |-> 0, force |-> 0]

NodesSpec == NodesInit /\ [][TeardownNext]_vars

(* ------------------ the function's handler (lambda/main.go) ------------ *)
\* Header values and tokens are sequences of symbols: the two scheme prefixes
\* "Bearer " and "bearer " (one symbol each), white space, and token text.
SchemePrefixes == {"Bearer ", "bearer "}

Symbols == SchemePrefixes \cup {" ", "t", "x"}

RECURSIVE SeqsUpTo(_, _)
SeqsUpTo(S, n) ==
    IF n = 0 THEN {<<>>}
    ELSE LET shorter == SeqsUpTo(S, n - 1)
         IN  shorter \cup {Append(s, x) : s \in shorter, x \in S}

HeaderValues == SeqsUpTo(Symbols, MaxHeader)

\* What TSE_AUTH_TOKEN may hold in the function's environment: <<>> is unset.
ExpectedTokens == {<<>>, <<"t">>, <<"t", "x">>, <<"bearer ", "t">>}

AuthKeys == {"Authorization", "authorization", "AUTHORIZATION"}

\* strings.ToLower on the header names of the model.
ToLower(key) == IF key \in AuthKeys THEN "authorization" ELSE "content-type"

\* The header maps: one header of any value under any spelling of the name,
\* no Authorization header, or two spellings at once.
HeaderMaps ==
    {[k \in {key} |-> v] : key \in AuthKeys, v \in HeaderValues}
    \cup {[k \in {"Content-Type"} |-> <<"x">>]}
    \cup [{"Authorization", "authorization"} -> {<<>>, <<"t">>, <<"x">>}]

Paths == {<<>>, <<"r", "instances">>, <<"r", "start">>, <<"r", "stop">>,
          <<"r", "cleanup">>, <<"r", "x">>, <<"r", "start", "x">>}

Requests == [Headers : HeaderMaps, Method : {"GET", "POST"}, Parts : Paths]

\* The range loop over request.Headers: Go visits a map in any order, and the
\* loop stops at the first name that is "authorization" in lower case.
AuthHeaders(headers) ==
    LET found == {k \in DOMAIN headers : ToLower(k) = "authorization"}
    IN  IF found = {} THEN {<<>>} ELSE {headers[k] : k \in found}

\* strings.TrimPrefix.
TrimPrefix(s, prefix) ==
    IF Len(s) >= Len(prefix) /\ SubSeq(s, 1, Len(prefix)) = prefix
    THEN SubSeq(s, Len(prefix) + 1, Len(s))
    ELSE s

\* A variant of validateAuthHeader that takes any token for the expected one.
validateAuthHeader_AnyToken(expectedToken, authHeader) ==
    IF expectedToken = <<>> THEN "TSE_AUTH_TOKEN not configured"
    ELSE IF authHeader = <<>> THEN "missing Authorization header"
    ELSE "nil"

\* validateAuth from the header found on: the error it returns, or "nil".
validateAuthHeader(expectedToken, authHeader) ==
    IF expectedToken = <<>> THEN "TSE_AUTH_TOKEN not configured"
    ELSE IF authHeader = <<>> THEN "missing Authorization header"
    ELSE LET token == TrimSpace(TrimPrefix(TrimPrefix(authHeader, <<"Bearer ">>),
                                           <<"bearer ">>))
         IN  IF token # expectedToken THEN "invalid token" ELSE "nil"

\* The switch of handler: the route handler the request goes to.
Route(method, parts) ==
    CASE method = "GET" /\ parts = <<>> -> "handleHealth"
      [] method = "GET" /\ Len(parts) = 2 /\ parts[2] = "instances" -> "handleListInstances"
      [] method = "POST" /\ Len(parts) = 2 /\ parts[2] = "start" -> "handleStartInstance"
      [] method = "POST" /\ Len(parts) = 2 /\ parts[2] = "stop" -> "handleStopInstances"
      [] method = "POST" /\ Len(parts) = 2 /\ parts[2] = "cleanup" -> "handleCleanupResources"
      [] OTHER -> "default"

\* The status codes the route handlers answer with.
RouteAnswers(route) ==
    CASE route = "default" -> {404}
      [] route = "handleHealth" -> {200}
      [] route = "handleStartInstance" -> {200, 400, 409, 500}
      [] OTHER -> {200, 400, 500}

\* handler: one request, from validateAuth to the response.
handler ==
    /\ pc = "handler"
    /\ \E authHeader \in AuthHeaders(request.Headers) :
         LET err == validateAuthHeader(env.TSE_AUTH_TOKEN, authHeader)
             route == Route(request.Method, request.Parts)
         IN  IF err # "nil"
             THEN Return([kind |-> "response", StatusCode |-> 401, route |-> "none"])
             ELSE \E code \in RouteAnswers(route) :
                    Return([kind |-> "response", StatusCode |-> code, route |-> route])
    /\ UNCHANGED <<svcVars, cfgVars, cloud, state, finalState, roleARN, roleArg, finalErr, task,
                   dsnap, lookupErrs, calls, keys, denied, timerVars>>

HandlerInit ==
    /\ acl = NIL
    /\ ctxDone = FALSE
    /\ cloud \in {c \in TaggedCloudStates : c.logGroup /\ c.role /\ c.managed /\ c.inline /\ c.url}
    /\ other = NIL
    /\ request \in Requests
    /\ cmd = "handler"
    /\ impl = "plain"
    /\ stdin = <<>>
    /\ env \in [TAILSCALE_AUTH_KEY : {"tskey-auth"}, TSE_AUTH_TOKEN : ExpectedTokens]
    /\ pc = "handler"
    /\ waiting = FALSE
    /\ state = NIL
    /\ finalState = NIL
    /\ roleARN = ""
    /\ roleArg = ""
    /\ tseAuthToken = ""
    /\ wasGenerated = FALSE
    /\ isLegacy = FALSE
    /\ finalErr = FALSE
    /\ result = [kind |-> "running"]
    /\ task = [o \in Ops |-> "none"]
    /\ dsnap = EmptyState
    /\ lookupErrs = {}
    /\ calls = EmptyBag
    /\ keys = 0
    /\ denied = 0
    /\ ticks = 0
    /\ NoService

HandlerNext == handler

HandlerSpec == HandlerInit /\ [][HandlerNext]_vars

(* ---------------- the ACL policy (shared/tailscale/acl.go) -------------- *)
\* An ACLPolicy: TagOwners is NIL (a nil map) or a map from tags to lists of
\* owners, AutoApprovers is NIL (a nil pointer) or a struct with the ExitNode
\* list, ACLs stands for the fields the functions never look at.
ExitNodeTag == "tag:exitnode"

Tags == {ExitNodeTag, "tag:server"}

Owners == {"autogroup:admin", "user@example.com"}

TagOwnerMaps ==
    {NIL} \cup UNION {[ts -> SeqsUpTo(Owners, MaxList)] : ts \in SUBSET Tags}

Policies ==
    [TagOwners : TagOwnerMaps,
     AutoApprovers : {NIL} \cup [ExitNode : SeqsUpTo(Tags, MaxList)],
     ACLs : {"none", "some"}]

Contains(list, x) == \E i \in 1..Len(list) : list[i] = x

\* A variant of EnsureTagOwner that adds the owner to a tag that is there.
EnsureTagOwner_AddsOwner(policy, tag, owner) ==
    IF policy = NIL THEN [policy |-> policy, changed |-> FALSE]
    ELSE LET owners == IF policy.TagOwners = NIL THEN <<>> ELSE policy.TagOwners
         IN  IF tag \in DOMAIN owners /\ Contains(owners[tag], owner)
             THEN [policy |-> [policy EXCEPT !.TagOwners = owners], changed |-> FALSE]
             ELSE [policy |-> [policy EXCEPT !.TagOwners =
                                  [t \in DOMAIN owners \cup {tag} |->
                                      IF t # tag THEN owners[t]
                                      ELSE IF tag \in DOMAIN owners
                                      THEN Append(owners[tag], owner)
                                      ELSE <<owner>>]],
                   changed |-> TRUE]

\* EnsureTagOwner: the policy as the call leaves it and the value returned.
EnsureTagOwner(policy, tag, owner) ==
    IF policy = NIL THEN [policy |-> policy, changed |-> FALSE]
    ELSE LET owners == IF policy.TagOwners = NIL THEN <<>> ELSE policy.TagOwners
         IN  IF tag \in DOMAIN owners
             THEN [policy |-> [policy EXCEPT !.TagOwners = owners], changed |-> FALSE]
             ELSE [policy |-> [policy EXCEPT !.TagOwners =
                                  [t \in DOMAIN owners \cup {tag} |->
                                      IF t = tag THEN <<owner>> ELSE owners[t]]],
                   changed |-> TRUE]

EnsureAutoApprover(policy, tag) ==
    IF policy = NIL THEN [policy |-> policy, changed |-> FALSE]
    ELSE LET approvers == IF policy.AutoApprovers = NIL
                          THEN [ExitNode |-> <<>>]
                          ELSE policy.AutoApprovers
         IN  IF Contains(approvers.ExitNode, tag)
             THEN [policy |-> [policy EXCEPT !.AutoApprovers = approvers],
                   changed |-> FALSE]
             ELSE [policy |-> [policy EXCEPT !.AutoApprovers =
                                  [ExitNode |-> Append(approvers.ExitNode, tag)]],
                   changed |-> TRUE]

HasTagOwner(policy, tag) ==
    policy # NIL /\ policy.TagOwners # NIL /\ tag \in DOMAIN policy.TagOwners

GetTagOwners(policy, tag) ==
    IF policy = NIL \/ policy.TagOwners = NIL \/ tag \notin DOMAIN policy.TagOwners
    THEN <<>>
    ELSE policy.TagOwners[tag]

HasAutoApprover(policy, tag) ==
    /\ policy # NIL /\ policy.AutoApprovers # NIL
    /\ Contains(policy.AutoApprovers.ExitNode, tag)

\* ConfigureForExitNodes: the policy as the call leaves it, the changes it
\* lists and modified.
ConfigureForExitNodes(policy, owner) ==
    IF policy = NIL THEN [policy |-> policy, changes |-> <<>>, modified |-> FALSE]
    ELSE LET a == EnsureTagOwner(policy, ExitNodeTag, owner)
             c1 == IF a.changed THEN <<"Added tag to tagOwners">>
                   ELSE IF HasTagOwner(a.policy, ExitNodeTag)
                   THEN <<"tag already in tagOwners">>
                   ELSE <<>>
             b == EnsureAutoApprover(a.policy, ExitNodeTag)
             c2 == IF b.changed THEN <<"Added tag to auto-approvers">>
                   ELSE IF HasAutoApprover(b.policy, ExitNodeTag)
                   THEN <<"tag already in auto-approvers">>
                   ELSE <<>>
         IN  [policy |-> b.policy, changes |-> c1 \o c2,
              modified |-> a.changed \/ b.changed]

\* A caller applies ConfigureForExitNodes to its policy once more. acl.owners
\* lists the owners of the calls made, acl.original and acl.previous keep the
\* policy as it was at the start and before the last call.
Configure ==
    /\ acl # NIL
    /\ Len(acl.owners) < MaxApply
    /\ \E owner \in Owners :
         LET out == ConfigureForExitNodes(acl.policy, owner)
         IN  acl' = [policy |-> out.policy, changes |-> out.changes,
                     modified |-> out.modified, owners |-> Append(acl.owners, owner),
                     original |-> acl.original, previous |-> acl.policy]
    /\ UNCHANGED <<svcVars, cmd, impl, stdin, env, other, request, ctxDone, cloud, state,
                   finalState, roleARN, finalErr, task, dsnap, lookupErrs, calls, keys, denied,
                   timerVars, mainVars>>

ACLInit ==
    /\ cloud \in {c \in TaggedCloudStates : c.logGroup /\ c.role /\ c.managed /\ c.inline /\ c.url}
    /\ other = NIL
    /\ request = NIL
    /\ ctxDone = FALSE
    /\ \E p \in Policies \cup {NIL} :
         acl = [policy |-> p, changes |-> <<>>, modified |-> FALSE, owners |-> <<>>,
                original |-> p, previous |-> p]
    /\ cmd = "acl"
    /\ impl = "plain"
    /\ stdin = <<>>
    /\ env = [TAILSCALE_AUTH_KEY |-> "tskey-auth", TSE_AUTH_TOKEN |-> ""]
    /\ pc = "done"
    /\ waiting = FALSE
    /\ state = NIL
    /\ finalState = NIL
    /\ roleARN = ""
    /\ roleArg = ""
    /\ tseAuthToken = ""
    /\ wasGenerated = FALSE
    /\ isLegacy = FALSE
    /\ finalErr = FALSE
    /\ result = [kind |-> "running"]
    /\ task = [o \in Ops |-> "none"]
    /\ dsnap = EmptyState
    /\ lookupErrs = {}
    /\ calls = EmptyBag
    /\ keys = 0
    /\ denied = 0
    /\ ticks = 0
    /\ NoService

ACLNext == Configure

ACLSpec == ACLInit /\ [][ACLNext]_vars

(* ------------------------------ properties ----------------------------- *)
CreationCalls ==
    {"CreateLogGroup", "PutRetentionPolicy", "CreateRole", "AttachRolePolicy",
     "PutRolePolicy", "CreateFunction", "CreateFunctionUrlConfig", "AddPermission"}

DeletionCalls ==
    {"DeleteFunctionUrlConfig", "DeleteFunction", "DeleteRolePolicy",
     "DetachRolePolicy", "DeleteRole", "DeleteLogGroup"}

\* How many calls of op the bag b holds, and how many with the answer ans.
Answered(b, op, ans) == CopiesIn([op |-> op, ans |-> ans], b)

IssuedIn(b, op) == Answered(b, op, "ok") + Answered(b, op, "err") + Answered(b, op, "prop")

Issued(op) == IssuedIn(calls, op)

\* This step issues a call of op.
Issuing(op) == IssuedIn(calls', op) > IssuedIn(calls, op)

NoCreation == \A op \in CreationCalls : Issued(op) = 0

NoDeletion == \A op \in DeletionCalls : Issued(op) = 0

\* The first discovery of Setup has returned its snapshot to Setup.
Discovered == cmd = "deploy" /\ state # NIL /\ pc # "discover"

C4_SecretBeforeCreation ==
    (Discovered /\ ~IsComplete(state) /\ env.TAILSCALE_AUTH_KEY = "") =>
        /\ pc = "done"
        /\ result = [kind |-> "error", at |-> "secret"]
        /\ NoCreation
        /\ \A op \in Ops \ {"discover"} : task[op] = "none"

C4_Witness ==
    /\ Discovered /\ ~IsComplete(state) /\ env.TAILSCALE_AUTH_KEY = ""
    /\ pc = "done" /\ result.kind = "error"

\* The place of a creation call in Setup's order: log group, role,
\* managed-policy attachment, inline policy, function, endpoint.
Rank(op) ==
    CASE op \in {"CreateLogGroup", "PutRetentionPolicy"} -> 1
      [] op = "CreateRole" -> 2
      [] op = "AttachRolePolicy" -> 3
      [] op = "PutRolePolicy" -> 4
      [] op = "CreateFunction" -> 5
      [] op \in {"CreateFunctionUrlConfig", "AddPermission"} -> 6

\* The initial snapshot shows the resource of a creation call absent.
AbsentInSnapshot(op) ==
    CASE op \in {"CreateLogGroup", "PutRetentionPolicy"} -> state.LogGroup = NIL
      [] op = "CreateRole" -> state.IAMRole = NIL
      [] op = "AttachRolePolicy" -> ~state.Policies.Managed
      [] op = "PutRolePolicy" -> state.Policies.InlineName = ""
      [] op = "CreateFunction" -> state.Lambda = NIL
      [] op \in {"CreateFunctionUrlConfig", "AddPermission"} -> state.FunctionURL = ""

\* C2: every creation call of a Setup run is for a resource the initial
\* snapshot shows absent, and no creation call is issued after a call that
\* comes later in the order log group, role, managed-policy attachment, inline
\* policy, function, endpoint.
C2_AbsentOnlyInOrder ==
    [][\A op \in CreationCalls :
          Issuing(op) =>
              /\ state # NIL /\ AbsentInSnapshot(op)
              /\ \A q \in CreationCalls : Issued(q) > 0 => Rank(q) <= Rank(op)]_vars

\* C3: whenever a create-function call is issued, the role, the managed-policy
\* attachment and the inline policy each were in the initial snapshot or were
\* created successfully earlier in the run.
C3_FunctionAfterRoleAndPolicies ==
    [][Issuing("CreateFunction") =>
          /\ state # NIL
          /\ state.IAMRole # NIL \/ Answered(calls, "CreateRole", "ok") > 0
          /\ state.Policies.Managed \/ Answered(calls, "AttachRolePolicy", "ok") > 0
          /\ state.Policies.InlineName # "" \/ Answered(calls, "PutRolePolicy", "ok") > 0]_vars

\* createLambdaFunctionWithRetry has returned to Setup.
RetryReturned == cmd = "deploy" /\ pc \notin {"function", "retry"}

\* C5: a create-function error other than the propagation error, on the first
\* attempt or on a retry, ends createLambdaFunctionWithRetry with that error,
\* and no create-function attempt follows it.
C5_OtherErrorIsFatal ==
    /\ [](Answered(calls, "CreateFunction", "err") > 0 /\ RetryReturned =>
            /\ pc = "done"
            /\ result.kind = "error"
            /\ result.at \in {"function", "retry"})
    /\ [][Issuing("CreateFunction") => Answered(calls, "CreateFunction", "err") = 0]_vars

\* C6: when every create-function attempt fails with the propagation error,
\* createLambdaFunctionWithRetry returns the timeout error to Setup, and it
\* has made no more attempts than the first one and one per tick.
C6_PropagationTimesOut ==
    /\ Issued("CreateFunction") <= MaxTicks + 1
    /\ (/\ task["retry"] # "none"
        /\ RetryReturned
        /\ Issued("CreateFunction") = Answered(calls, "CreateFunction", "prop")) =>
            /\ pc = "done"
            /\ result = [kind |-> "error", at |-> "timeout"]

\* The place of a deletion call in Teardown's order: endpoint, function,
\* inline policy, managed-policy detachment, role, log group.
DeletionRank(op) ==
    CASE op = "DeleteFunctionUrlConfig" -> 1
      [] op = "DeleteFunction" -> 2
      [] op = "DeleteRolePolicy" -> 3
      [] op = "DetachRolePolicy" -> 4
      [] op = "DeleteRole" -> 5
      [] op = "DeleteLogGroup" -> 6

\* The deletion call of a step of Teardown.
DeletionOf(step) ==
    CASE step = "delURL" -> "DeleteFunctionUrlConfig"
      [] step = "delFn" -> "DeleteFunction"
      [] step = "delInline" -> "DeleteRolePolicy"
      [] step = "detach" -> "DetachRolePolicy"
      [] step = "delRole" -> "DeleteRole"
      [] step = "delLog" -> "DeleteLogGroup"

DeletionSteps == {"delURL", "delFn", "delInline", "detach", "delRole", "delLog"}

\* C7: Teardown issues each deletion call at most once, and none after a call
\* that comes later in the order endpoint, function, inline policy,
\* managed-policy detachment, role, log group.
C7_ReverseOrderOnce ==
    [][\A op \in DeletionCalls :
          Issuing(op) =>
              /\ Issued(op) = 0
              /\ \A q \in DeletionCalls :
                    Issued(q) > 0 => DeletionRank(q) < DeletionRank(op)]_vars

\* Teardown (teardown.go) has returned after creating its clients.
TornDown ==
    /\ cmd = "teardown" /\ impl = "plain" /\ pc = "done"
    /\ state # NIL /\ Exists(state)
    /\ result # [kind |-> "error", at |-> "clients"]

\* C8: in Teardown (teardown.go) a failed deletion does not stop the sequence:
\* once the clients are created, every deletion whose resource is in the
\* snapshot is attempted, whatever the earlier ones answered, and Teardown
\* returns no error; the only errors it returns are those of discovery and of
\* client creation.
C8_DeletionIsBestEffort ==
    /\ TornDown =>
          /\ result = [kind |-> "ok", found |-> TRUE]
          /\ \A step \in DeletionSteps :
                TeardownNeeded(step) => Issued(DeletionOf(step)) = 1
    /\ (cmd = "teardown" /\ impl = "plain" /\ result.kind = "error") =>
          result.at \in {"confirm", "discover", "clients"}

C8_Witness ==
    /\ TornDown
    /\ Answered(calls, "DeleteFunction", "err") > 0
    /\ Answered(calls, "DeleteRole", "err") > 0
    /\ Issued("DeleteLogGroup") = 1

\* The line typed, without its line terminator.
Chomp(line) ==
    IF Len(line) >= 2 /\ SubSeq(line, Len(line) - 1, Len(line)) = <<"\r", "\n">>
    THEN SubSeq(line, 1, Len(line) - 2)
    ELSE IF Len(line) >= 1 /\ line[Len(line)] = "\n"
    THEN SubSeq(line, 1, Len(line) - 1)
    ELSE line

\* C9 as stated: a deletion call is issued only when the confirmation line is
\* exactly the token DELETE.
C9_ExactMatch ==
    (cmd = "teardown" /\ ~NoDeletion) =>
        /\ HasNewline(stdin)
        /\ Chomp(ReadString(stdin)) = ConfirmToken

\* C9: runTeardown issues a deletion call only when a confirmation line was
\* read and, with its leading and trailing white space removed, it is the
\* token DELETE; with any other line it returns "cancelled", at end of input
\* without a line an error, and either way nothing is looked up or deleted.
C9_TrimmedMatch ==
    cmd = "teardown" =>
        /\ ~NoDeletion => HasNewline(stdin) /\ TrimSpace(ReadString(stdin)) = ConfirmToken
        /\ (pc # "confirm" /\ HasNewline(stdin)
              /\ TrimSpace(ReadString(stdin)) # ConfirmToken) =>
                 /\ pc = "done" /\ result = [kind |-> "cancelled"]
                 /\ NoDeletion /\ task["discover"] = "none"
        /\ (pc # "confirm" /\ ~HasNewline(stdin)) =>
                 /\ pc = "done" /\ result = [kind |-> "error", at |-> "confirm"]
                 /\ NoDeletion /\ task["discover"] = "none"

C9_Witness ==
    /\ cmd = "teardown" /\ ~NoDeletion
    /\ ReadString(stdin) # ConfirmToken \o <<"\n">>

\* C10: a discovery that has returned a snapshot got no answer but "found" and
\* "not found" from its lookups: an unexpected provider error on a lookup
\* makes discovery return an error.
C10_LookupErrorAborts ==
    \A d \in {"discover", "verify"} : (pc = d /\ task[d] = "ok") => lookupErrs = {}

\* The three tagged resources that are present in the snapshot s.
PresentResources(s) == {r \in {s.LogGroup, s.IAMRole, s.Lambda} : r # NIL}

\* C11: detectLegacyResources returns TRUE iff at least one of log group, role
\* and function is present and none of the present ones carries ManagedBy=tse.
C11_LegacyIffNoneTagged ==
    cmd = "none" =>
        \A v \in result["detectLegacyResources"] :
            v = (/\ PresentResources(state) # {}
                 /\ \A r \in PresentResources(state) : r.Tags.ManagedBy # TagManagedBy)

C11_Witness ==
    /\ cmd = "none"
    /\ result["detectLegacyResources"] = {TRUE}
    /\ Cardinality(PresentResources(state)) = 2
    /\ \E r \in PresentResources(state) : r.Tags.ManagedBy = "terraform"

\* The snapshot s with the tags of its resources removed.
Untag(s) ==
    [s EXCEPT !.LogGroup = IF @ = NIL THEN NIL ELSE Resource(@.Name, ""),
              !.IAMRole = IF @ = NIL THEN NIL ELSE Resource(@.Name, ""),
              !.Lambda = IF @ = NIL THEN NIL ELSE Resource(@.Name, "")]

\* The deletion steps whose resource the snapshot s shows.
Plan(s) ==
    {step \in DeletionSteps :
        \/ step = "delURL" /\ s.FunctionURL # "" /\ s.Lambda # NIL
        \/ step = "delFn" /\ s.Lambda # NIL
        \/ step = "delInline" /\ s.Policies.InlineName # "" /\ s.IAMRole # NIL
        \/ step = "detach" /\ s.Policies.Managed /\ s.IAMRole # NIL
        \/ step = "delRole" /\ s.IAMRole # NIL
        \/ step = "delLog" /\ s.LogGroup # NIL}

\* Teardown is past the step: at a later step, or returned after the last one.
Passed(step) ==
    \/ pc \in DeletionSteps /\ DeletionRank(DeletionOf(pc)) > DeletionRank(DeletionOf(step))
    \/ pc = "done" /\ result = [kind |-> "ok", found |-> TRUE]

\* C12: the deletion calls of Teardown (teardown.go) are fixed by the snapshot
\* without its tags and by how far Teardown has come: a step's call has been
\* issued exactly once when Teardown is past the step and the untagged snapshot
\* shows its resource, at most once while Teardown is at the step, and not at
\* all otherwise, whatever the legacy check has found.
C12_TagsDoNotChangeDeletions ==
    (cmd = "teardown" /\ impl = "plain") =>
        \A step \in DeletionSteps :
            LET n == Issued(DeletionOf(step))
                planned == state # NIL /\ step \in Plan(Untag(state))
            IN  /\ (planned /\ Passed(step)) => n = 1
                /\ (planned /\ pc = step) => n <= 1
                /\ (~planned \/ (~Passed(step) /\ pc # step)) => n = 0

C12_Witness ==
    /\ cmd = "teardown" /\ impl = "plain"
    /\ isLegacy
    /\ pc = "done" /\ result = [kind |-> "ok", found |-> TRUE]
    /\ Plan(Untag(state)) = DeletionSteps
    /\ \A step \in DeletionSteps : Issued(DeletionOf(step)) = 1

\* C13: a snapshot for which IsComplete returns TRUE is one for which Exists
\* returns TRUE.
C13_CompleteImpliesExists ==
    (cmd = "none" /\ TRUE \in result["IsComplete"] /\ result["Exists"] # {}) =>
        result["Exists"] = {TRUE}

C13_Witness ==
    cmd = "none" /\ result["IsComplete"] = {TRUE} /\ result["Exists"] = {TRUE}

\* The six fields of a snapshot in the order of Missing's labels, and the ones
\* that are absent or empty in s.
Labels ==
    <<"CloudWatch Log Group", "IAM Role", "Managed Policy Attachment", "Inline Policy",
      "Lambda Function", "Function URL">>

AbsentFields(s) ==
    {i \in 1..6 :
        \/ i = 1 /\ s.LogGroup = NIL
        \/ i = 2 /\ s.IAMRole = NIL
        \/ i = 3 /\ ~s.Policies.Managed
        \/ i = 4 /\ s.Policies.InlineName = ""
        \/ i = 5 /\ s.Lambda = NIL
        \/ i = 6 /\ s.FunctionURL = ""}

\* The place of a label in the fixed order (0 for a text that is no label).
LabelIndex(l) == IF \E i \in 1..6 : Labels[i] = l THEN CHOOSE i \in 1..6 : Labels[i] = l ELSE 0

\* C14: Missing returns as many labels as there are absent or empty fields
\* among the six, and the labels come in the fixed order log group, role,
\* managed-policy attachment, inline policy, function, endpoint.
C14_MissingCountAndOrder ==
    cmd = "none" =>
        \A m \in result["Missing"] :
            /\ Len(m) = Cardinality(AbsentFields(state))
            /\ \A i \in 1..Len(m) : LabelIndex(m[i]) \in AbsentFields(state)
            /\ \A i, j \in 1..Len(m) : i < j => LabelIndex(m[i]) < LabelIndex(m[j])

C14_Witness ==
    /\ cmd = "none"
    /\ \E m \in result["Missing"] : Len(m) = 3 /\ m[1] = "IAM Role" /\ m[3] = "Function URL"

\* C15: HasOnlyIAMResources is TRUE iff the role is present or a policy field
\* is set, and log group, function and endpoint URL are all absent.
C15_OnlyIAM ==
    cmd = "none" =>
        \A v \in result["HasOnlyIAMResources"] :
            v = (/\ \/ state.IAMRole # NIL
                    \/ state.Policies.Managed
                    \/ state.Policies.InlineName # ""
                 /\ state.LogGroup = NIL
                 /\ state.Lambda = NIL
                 /\ state.FunctionURL = "")

C15_Witness ==
    /\ cmd = "none"
    /\ result["HasOnlyIAMResources"] = {FALSE}
    /\ state.IAMRole = NIL /\ ~state.Policies.Managed /\ state.Policies.InlineName = ""
    /\ state.FunctionURL # "" /\ state.LogGroup = NIL /\ state.Lambda = NIL

ReturnsAfterCreating ==
    /\ cmd = "deploy" /\ pc # "done" /\ pc' = "done"
    /\ result'.kind = "ok"
    /\ \E op \in CreationCalls : Answered(calls, op, "ok") > 0

\* C17: when Setup has created a resource and returns successfully, the State
\* it returns is what the verifying discovery has assigned to finalState, and
\* no creation call is issued once that discovery has made its first lookup.
C17_ReturnsVerifiedState ==
    [][/\ ReturnsAfterCreating =>
             /\ task["verify"] = "ok"
             /\ finalState # NIL
             /\ result'.State = finalState
       /\ \A op \in CreationCalls :
             Issuing(op) => task["verify"] \in {"none", "ready"}]_vars

\* Setup has been handed an incomplete snapshot by its first discovery and has
\* gone on from it.
IncompleteSnapshot ==
    /\ cmd = "deploy" /\ pc # "discover"
    /\ state # NIL /\ ~IsComplete(state)

\* The credential is a generated one exactly when TSE_AUTH_TOKEN is empty, and
\* is the value of TSE_AUTH_TOKEN otherwise; a result carries the same.
TokenAsInEnvironment ==
    /\ wasGenerated = (env.TSE_AUTH_TOKEN = "")
    /\ tseAuthToken = (IF env.TSE_AUTH_TOKEN = "" THEN generateAuthToken
                       ELSE env.TSE_AUTH_TOKEN)
    /\ result.kind = "ok" =>
          /\ result.WasGenerated = wasGenerated
          /\ result.AuthToken = tseAuthToken

\* C18 as stated: on an incomplete snapshot Setup generates a credential iff
\* TSE_AUTH_TOKEN is empty, WasGenerated is true exactly then, and a set
\* TSE_AUTH_TOKEN is the AuthToken returned.
C18_GeneratedIffTokenEmpty == IncompleteSnapshot => TokenAsInEnvironment

\* C18 as the code has it: the same, when TAILSCALE_AUTH_KEY is set; without
\* it Setup returns an error before the credential step and generates nothing.
C18_GeneratedIffTokenEmptyAndSecretSet ==
    /\ (IncompleteSnapshot /\ env.TAILSCALE_AUTH_KEY # "") => TokenAsInEnvironment
    /\ (IncompleteSnapshot /\ env.TAILSCALE_AUTH_KEY = "") =>
          /\ ~wasGenerated /\ tseAuthToken = ""
          /\ result = [kind |-> "error", at |-> "secret"]

C18_Witness ==
    /\ IncompleteSnapshot
    /\ env.TSE_AUTH_TOKEN = "" /\ env.TAILSCALE_AUTH_KEY # ""
    /\ pc = "done" /\ result.kind = "ok"
    /\ result.WasGenerated /\ result.AuthToken = generateAuthToken

\* tse deploy was run with TSE_AUTH_TOKEN unset against a deployment whose
\* function is there, and has returned successfully.
Redeployed ==
    /\ cmd = "deploy" /\ env.TSE_AUTH_TOKEN = ""
    /\ state # NIL /\ state.Lambda # NIL
    /\ pc = "done" /\ result.kind = "ok"

\* C19: after tse deploy has run with TSE_AUTH_TOKEN unset against an existing
\* deployment, a new token has been generated and the deployed function no
\* longer accepts the old one.
C19_RotationInvalidatesOldToken ==
    Redeployed =>
        /\ result.WasGenerated
        /\ ~validateAuth(cloud, OldToken)

\* The cleanup goroutine removes a part of the network stack in this step: the gateway
\* is detached or deleted, the subnet or the network is deleted.
StackPartDeleted ==
    /\ svc.cleanup # svc'.cleanup
    /\ \/ ec2.igw = "attached" /\ ec2'.igw # "attached"
       \/ ec2.igw # "none" /\ ec2'.igw = "none"
       \/ ec2.subnet /\ ~ec2'.subnet
       \/ ec2.vpc /\ ~ec2'.vpc

\* C20: at the moment the delayed cleanup deletes a part of the network stack,
\* the region holds no running or pending tagged instance.
C20_NoDeletionUnderInstance ==
    [][StackPartDeleted =>
          \A i \in InstanceIds : ec2.inst[i] \notin {"running", "pending"}]_vars

\* The cleanup goroutine returns from deleteVPCStack in this step, in a region
\* where no instance remains and no start request is being handled.
CleanupEnds ==
    /\ svc.cleanup = "delvpc" /\ svc'.cleanup = "idle"
    /\ svc.start = "idle"
    /\ \A i \in InstanceIds : ec2.inst[i] \in {"none", "terminated"}

\* C21: when the delayed cleanup has run in a region where no instance remains,
\* the security group, the internet gateway, the subnet and the VPC are gone.
C21_CleanupLeavesNothing ==
    [][CleanupEnds =>
          /\ ~ec2'.sg
          /\ ec2'.igw = "none"
          /\ ~ec2'.subnet
          /\ ~ec2'.vpc]_vars

\* C22: ForceCleanupAllResources never leaves the network stack alone because
\* of the instances: its cleanupVPCInfrastructure does not return nil from the
\* instance check.
C22_ForceIgnoresInstances ==
    [][~(svc.force = "check" /\ svc'.force = "report")]_vars

\* Both invocations of Setup have returned.
BothEnded == pc = "done" /\ other.pc = "done"

\* The creation calls the provider rejects for what is already there.
RejectingCalls ==
    {"CreateLogGroup", "CreateRole", "CreateFunction", "CreateFunctionUrlConfig",
     "AddPermission"}

\* The six resources of the control plane are there.
ControlPlaneComplete ==
    /\ cloud.logGroup /\ cloud.role /\ cloud.managed /\ cloud.inline
    /\ cloud.fn /\ cloud.url

OneSucceeded == result.kind = "ok" \/ other.result.kind = "ok"

CreatedOnce == \A op \in RejectingCalls : Answered(calls, op, "ok") <= 1

\* C23: when two invocations of Setup started on an empty control plane have
\* both returned, and nothing failed but the creation of what was already there,
\* one of them has returned success, no resource was created twice and the
\* control plane is complete.
C23_ConcurrentRuns ==
    BothEnded => OneSucceeded /\ CreatedOnce /\ ControlPlaneComplete

\* The header value h carries the token t: t stands in h with nothing before
\* it but scheme prefixes and white space, and nothing after it but white space.
Carries(h, t) ==
    \E i \in 1..Len(h) :
        /\ i + Len(t) - 1 <= Len(h)
        /\ SubSeq(h, i, i + Len(t) - 1) = t
        /\ \A j \in 1..(i - 1) : h[j] \in SchemePrefixes \cup WhiteSpace
        /\ \A j \in (i + Len(t))..Len(h) : h[j] \in WhiteSpace

\* TSE_AUTH_TOKEN is configured and an Authorization header of the request
\* carries it.
Authorized ==
    /\ env.TSE_AUTH_TOKEN # <<>>
    /\ \E k \in DOMAIN request.Headers :
         ToLower(k) = "authorization" /\ Carries(request.Headers[k], env.TSE_AUTH_TOKEN)

DiscoveryStep(d, from, to) == task[d] = from /\ task'[d] = to

\* The fields a part of the discovery fills are found at the provider.
FoundIAM(s, c) ==
    /\ s.IAMRole # NIL => c.role
    /\ s.IAMRole = NIL => s.Policies = EmptyState.Policies
    /\ s.Policies.Managed => c.managed
    /\ s.Policies.InlineName # "" => c.inline

FoundLambda(s, c) ==
    /\ s.Lambda # NIL => c.fn
    /\ s.FunctionURL # "" => c.url

FoundLogs(s, c) == s.LogGroup # NIL => c.logGroup

\* C25: a step of AutodiscoverInfrastructure leaves the provider's resources
\* as they are and issues no mutating call; the snapshot it builds starts empty
\* and each part fills its own fields from what it finds at the provider now,
\* whatever an earlier call returned.
C25_DiscoveryReadsOnly ==
    [][\A d \in {"discover", "verify"} :
          /\ task[d] \in {"ready", "d1", "d2"} /\ task'[d] # task[d] =>
                cloud' = cloud /\ calls' = calls
          /\ DiscoveryStep(d, "ready", "d1") =>
                /\ FoundIAM(dsnap', cloud)
                /\ dsnap'.Lambda = NIL /\ dsnap'.FunctionURL = "" /\ dsnap'.LogGroup = NIL
          /\ DiscoveryStep(d, "d1", "d2") =>
                /\ FoundLambda(dsnap', cloud)
                /\ dsnap'.IAMRole = dsnap.IAMRole /\ dsnap'.Policies = dsnap.Policies
                /\ dsnap'.LogGroup = NIL
          /\ DiscoveryStep(d, "d2", "ok") =>
                /\ FoundLogs(dsnap', cloud)
                /\ dsnap'.IAMRole = dsnap.IAMRole /\ dsnap'.Policies = dsnap.Policies
                /\ dsnap'.Lambda = dsnap.Lambda /\ dsnap'.FunctionURL = dsnap.FunctionURL
                /\ (IF d = "discover" THEN state' ELSE finalState') = dsnap']_vars

\* The second discovery of a Setup run has returned a snapshot other than the
\* first one.
C25_Witness ==
    /\ cmd = "deploy"
    /\ task["verify"] = "ok"
    /\ state # NIL /\ finalState # NIL
    /\ finalState # state
    /\ Exists(state)

\* C26: once ConfigureForExitNodes has been applied to a policy that is not
\* nil, a further application with the same owner returns modified = false and
\* leaves the policy as it was; and the owners of a tag:exitnode entry that
\* was there at the start are never changed.
C26_ConfigureIsIdempotent ==
    acl.original # NIL /\ Len(acl.owners) >= 1 =>
        /\ (/\ Len(acl.owners) >= 2
            /\ acl.owners[Len(acl.owners)] = acl.owners[Len(acl.owners) - 1]) =>
               acl.modified = FALSE /\ acl.policy = acl.previous
        /\ HasTagOwner(acl.original, ExitNodeTag) =>
               GetTagOwners(acl.policy, ExitNodeTag) = GetTagOwners(acl.original, ExitNodeTag)

\* The second application, with the owner of the first, to a policy whose
\* tag:exitnode entry names another owner and which the first application
\* modified.
C26_Witness ==
    /\ Len(acl.owners) = 2
    /\ acl.owners = <<"user@example.com", "user@example.com">>
    /\ HasTagOwner(acl.original, ExitNodeTag)
    /\ GetTagOwners(acl.original, ExitNodeTag) = <<"autogroup:admin">>
    /\ acl.policy # acl.original

\* Every call the provider was sent in this run has succeeded, lookups included.
EveryCallSucceeded ==
    /\ denied = 0
    /\ \A op \in CreationCalls : Issued(op) = Answered(calls, op, "ok")

\* The run has failed on its own: no secret, no client configuration, no build.
LocalFailure ==
    /\ result.kind = "error"
    /\ result.at \in {"secret", "clients", "build", "discover", "verify"}

\* C27: a Setup run on what failed runs left behind, in which every provider
\* call succeeds, returns a snapshot for which IsComplete is true, and has
\* issued creation calls only for what its first snapshot shows absent.
C27_RerunCompletes ==
    cmd = "deploy" /\ pc = "done" /\ EveryCallSucceeded /\ ~LocalFailure =>
        /\ result.kind = "ok"
        /\ result.State # NIL
        /\ IsComplete(result.State)
        /\ \A op \in CreationCalls : Issued(op) > 0 => AbsentInSnapshot(op)

\* A creation call of this run has failed with an error that is not retried.
CreationFailed == \E op \in CreationCalls : Answered(calls, op, "err") > 0

\* C28: once a creation call of a Setup run has failed (a retried propagation
\* error apart), the run issues no further creation call and returns an error;
\* it issues no deletion call, and what is at the provider stays there.
C28_FailureStopsSetup ==
    /\ [][CreationFailed => \A op \in CreationCalls : ~Issuing(op)]_vars
    /\ [](cmd = "deploy" /\ pc = "done" /\ CreationFailed => result.kind = "error")
    /\ [][/\ \A op \in DeletionCalls : ~Issuing(op)
          /\ \A f \in {"logGroup", "role", "managed", "inline", "fn", "url"} :
                cloud[f] => cloud'[f]]_vars

\* Setup has returned success with a snapshot that shows the endpoint and for
\* which IsComplete is true.
TreatedAsComplete ==
    /\ cmd = "deploy" /\ pc = "done"
    /\ result.kind = "ok"
    /\ result.State # NIL
    /\ result.State.FunctionURL # "" /\ IsComplete(result.State)

\* C29: when Setup has treated the control plane as complete, the function
\* carries the public-invoke permission.
C29_CompleteHasPermission == TreatedAsComplete => cloud.perm

\* C30: when Setup has returned success with WasGenerated true, the AuthToken
\* it returned is the TSE_AUTH_TOKEN in the environment of the deployed function.
C30_GeneratedTokenIsDeployed ==
    cmd = "deploy" /\ pc = "done" /\ result.kind = "ok" /\ result.WasGenerated =>
        cloud.fn /\ cloud.fnToken = result.AuthToken

\* The snapshots AutodiscoverInfrastructure has returned to the command: the
\* one of the first discovery and the one of the verification.
ReturnedSnapshots == {s \in {state, finalState} : s # NIL}

AllAbsent(s) ==
    /\ s.LogGroup = NIL /\ s.IAMRole = NIL /\ s.Lambda = NIL
    /\ s.FunctionURL = "" /\ ~s.Policies.Managed /\ s.Policies.InlineName = ""

\* C31: in every snapshot AutodiscoverInfrastructure returns, a managed-policy
\* flag or an inline-policy name comes with the role and an endpoint URL comes
\* with the function; so a snapshot for which Exists() is false has all six
\* fields absent and Missing() lists six labels.
C31_SnapshotIsCoherent ==
    \A s \in ReturnedSnapshots :
        /\ s.Policies.Managed \/ s.Policies.InlineName # "" => s.IAMRole # NIL
        /\ s.FunctionURL # "" => s.Lambda # NIL
        /\ ~Exists(s) => AllAbsent(s) /\ Len(Missing(s)) = 6

\* Discovery has returned a snapshot without resources although the role and
\* its managed policy are there (GetRole was refused).
C31_Witness ==
    /\ cmd = "teardown" /\ task["discover"] = "ok"
    /\ state # NIL /\ ~Exists(state)
    /\ cloud.role /\ cloud.managed

\* The answers of a provider that refuses no lookup.
TrueAnswers(c) ==
    LET a(exists) == IF exists THEN "ok" ELSE "notfound" IN
    [GetRole |-> a(c.role), ListRoleTags |-> a(c.role),
     ListAttachedRolePolicies |-> a(c.role), GetRolePolicy |-> a(c.inline),
     GetFunction |-> a(c.fn), ListTags |-> a(c.fn), GetFunctionUrlConfig |-> a(c.url),
     DescribeLogGroups |-> "ok", ListTagsForResource |-> a(c.logGroup)]

\* The snapshot a discovery returns on the resources c when no lookup is refused.
FollowingDiscovery(c) ==
    LET r == TrueAnswers(c)
        s1 == discoverIAMResources(c, EmptyState, r).state
        s2 == discoverLambdaResources(c, s1, r).state
    IN  discoverLogsResources(c, s2, r).state

\* Teardown (teardown.go) has returned without an error and none of the
\* deletion calls it made has failed.
TornDownWithoutFailure ==
    /\ cmd = "teardown" /\ impl = "plain" /\ pc = "done"
    /\ result.kind = "ok"
    /\ \A op \in DeletionCalls : Answered(calls, op, "err") = 0

\* C32: Teardown attempts the deletion of every resource its snapshot shows;
\* after a Teardown in which every deletion call has succeeded, a following
\* discovery returns a snapshot for which Exists() is false and Missing()
\* lists all six labels.
C32_TeardownLeavesNothing ==
    TornDownWithoutFailure =>
        /\ \A step \in DeletionSteps :
              TeardownNeeded(step) /\ result.found => Issued(DeletionOf(step)) = 1
        /\ ~Exists(FollowingDiscovery(cloud))
        /\ Len(Missing(FollowingDiscovery(cloud))) = 6

\* The confirmed teardown command has returned success, and no lookup and no
\* deletion call has failed.
ConfirmedTeardownSucceeded ==
    /\ cmd = "teardown" /\ pc = "done"
    /\ HasNewline(stdin) /\ Confirmed(ReadString(stdin))
    /\ result.kind = "ok"
    /\ denied = 0
    /\ \A op \in DeletionCalls : Answered(calls, op, "err") = 0

\* C33: after a confirmed teardown in which every provider call has succeeded
\* no tagged exit node instance and no tagged network (VPC) remains.
C33_TeardownRemovesExitNodes ==
    ConfirmedTeardownSucceeded =>
        /\ ListInstances(ec2) = {} /\ ~Occupied(ec2)
        /\ ~ec2.vpc

\* Teardown has ended by printing "Teardown complete!" and returning nil: the
\* only summary it prints after the deletions (teardown.go:111-118,
\* delete.go:207-216).
PlainSuccessSummary ==
    cmd = "teardown" /\ pc = "done" /\ result = [kind |-> "ok", found |-> TRUE]

DeletionFailed == \E op \in DeletionCalls : Answered(calls, op, "err") > 0

\* C34: when at least one deletion has failed, the final summary of Teardown
\* is not the plain success summary.
C34_FailureIsSummarised ==
    cmd = "teardown" /\ pc = "done" /\ DeletionFailed => ~PlainSuccessSummary

\* The goroutine of step op has been started and its operation has not
\* returned yet.
InFlight(op) == task[op] \notin {"none"} \cup Finished

\* Setup is past the function step, which it has run: createLambdaFunctionWithRetry
\* has returned without an error.
FunctionStepSucceeded ==
    /\ cmd = "deploy" /\ task["function"] # "none"
    /\ \/ pc \in {"url", "verify"}
       \/ pc = "done" /\ result.kind = "ok"
       \/ pc = "done" /\ result.kind = "error" /\ result.at \in {"url", "verify"}

\* WithSpinner does not return while its operation is running.
C35_ReturnsAfterCompletion ==
    \A op \in Ops : cmd = "deploy" /\ Alive /\ InFlight(op) => pc = op /\ waiting

\* The error of a failed operation is the error Setup returns.
C35_ReturnsTheError ==
    \A op \in Ops :
        cmd = "deploy" /\ task[op] = "err" /\ pc # op =>
            pc = "done" /\ result = [kind |-> "error", at |-> op]

\* createLambdaFunctionWithRetry returns success only after a create-function
\* call that succeeded.
C35_FunctionCreated ==
    FunctionStepSucceeded => Answered(calls, "CreateFunction", "ok") >= 1

\* C35: WithSpinner returns nil only when its operation has run to completion
\* without an error and returns the operation's error when it fails; so Setup
\* is never at another step while the provider call of a step is in flight,
\* and createLambdaFunctionWithRetry returns success only if a create-function
\* call has succeeded -- also when Ctrl+C is pressed while a spinner is shown.
C35_SpinnerWaitsForOperation ==
    /\ C35_ReturnsAfterCompletion
    /\ C35_ReturnsTheError
    /\ C35_FunctionCreated

\* The retry loop takes a tick: checkFunc runs.
RetryTick == task["retry"] = "ready" /\ ticks' > ticks

\* createLambdaFunctionWithRetry returns to Setup.
RetryReturns == pc \in {"function", "retry"} /\ pc' \notin {"function", "retry"}

\* C36: once ctx is done no create-function call succeeds or is answered
\* "not yet", the retry loop ends with the tick that follows instead of going
\* on to its timeout, and createLambdaFunctionWithRetry returns an error to
\* Setup unless the function had been created before.
C36_CancelStopsRetry ==
    [][ctxDone =>
          /\ Issuing("CreateFunction") =>
                Answered(calls', "CreateFunction", "err") > Answered(calls, "CreateFunction", "err")
          /\ RetryTick => task'["retry"] = "ok" /\ finalErr'
          /\ RetryReturns /\ Answered(calls, "CreateFunction", "ok") = 0 =>
                pc' = "done" /\ result'.kind = "error"]_vars

\* The listing of the start request being handled holds a running or pending
\* instance.
ListedBusy == \E x \in slocal.existingInstances : x[2] \in {"running", "pending"}

\* RunInstances succeeds in this step.
Launching == \E i \in InstanceIds : ec2.inst[i] = "none" /\ ec2'.inst[i] = "pending"

\* C37: when the listing of a start request holds a running or pending tagged
\* instance the request ends there with 409 Conflict and launches nothing;
\* an instance is launched only by a request whose listing was obtained and
\* holds no running or pending instance.
C37_StartOnlyWhenNoneListed ==
    /\ [](ListedBusy => svc.start = "idle" /\ reply.start = 409)
    /\ [][Launching => svc.start = "run" /\ slocal.listed /\ ~ListedBusy]_vars

\* A start request was answered 409 for a pending instance that the other
\* request had launched.
C37_Witness ==
    /\ \E x \in slocal.existingInstances : x[2] = "pending"
    /\ svc.start = "idle" /\ reply.start = 409
    /\ other.reply = 201

\* C38: the region never holds more than one running or pending exit node
\* instance, also when two start requests are handled at the same time.
C38_AtMostOneInstance ==
    Cardinality({i \in InstanceIds : ec2.inst[i] \in {"running", "pending"}}) <= 1

\* The resource an identifier of the list names is terminated or deleted in
\* the region e.
Gone(x, e) ==
    CASE x[1] = "Instance" -> e.inst[x[2]] \in {"shutting-down", "terminated"}
      [] x[1] = "SecurityGroup" -> ~e.sg
      [] x[1] = "VPC" -> ~e.vpc

\* C39: every identifier ForceCleanupAllResources puts on the list it returns
\* names a resource that the call has terminated or deleted: a resource that
\* is still there is never put on the list.
C39_ReportedIsCleaned ==
    [][\A x \in slocal'.cleanedResources \ slocal.cleanedResources : Gone(x, ec2')]_vars
====
